---- MODULE Spec2Model ----
(***************************************************************************)
(* JSONStore (file-backed JSON document store) with its AsyncMutex, the    *)
(* atomic writer and the nested path accessor.                             *)
(*                                                                         *)
(* JSON values are tagged records; an object is a function from its own    *)
(* property names to values.  Every store operation replaces #data by a    *)
(* fresh or different root object and never mutates an object reachable    *)
(* from #data in place, so the store's own operations are modelled on      *)
(* values (Spec).  Object identity and callers mutating what the read      *)
(* operations hand out are modelled separately on a heap (SpecAlias).      *)
(***************************************************************************)
EXTENDS Integers, Sequences, FiniteSets, TLC

(***************************************************************************)
(* Bounds                                                                  *)
(***************************************************************************)
MaxCalls == 3

MaxObjs == 4

(***************************************************************************)
(* JSON values                                                             *)
(***************************************************************************)
Undef == [t |-> "undefined"]

Num(n) == [t |-> "num", n |-> n]

Obj(f) == [t |-> "obj", f |-> f]

Null == [t |-> "null"]

\* the number NaN
NaN == [t |-> "nan"]

EmptyObj == Obj([k \in {} |-> Undef])

\* the array []; its elements are kept under their index names
EmptyArr == [t |-> "arr", f |-> [k \in {} |-> Undef]]

\* Object.prototype, which every object of a document inherits from
ObjectPrototype == [t |-> "prototype"]

\* `x == null` in JavaScript: true of undefined and of null
IsNullish(v) == v.t \in {"undefined", "null"}

\* `x != null && typeof x === "object"`
IsObject(v) == v.t \in {"obj", "arr", "prototype"}

\* current[key]: an own property, or undefined; the key __proto__ is the
\* accessor every object inherits and reads the prototype
Prop(v, name) ==
  IF name \in DOMAIN v.f THEN v.f[name]
  ELSE IF name = "__proto__" THEN ObjectPrototype
  ELSE Undef

\* current[key] = value; under the key __proto__, unless it is an own
\* property, the inherited setter runs, which makes no own property and
\* ignores a value that is not an object (the callers here pass it numbers
\* and strings only)
Put(v, name, val) ==
  IF name = "__proto__" /\ name \notin DOMAIN v.f THEN v
  ELSE [t |-> v.t,
        f |-> [k \in (DOMAIN v.f) \cup {name} |-> IF k = name THEN val ELSE v.f[k]]]

RECURSIVE SpreadDeep(_, _)
\* mutant of Spread: properties that are objects on both sides are merged
SpreadDeep(a, b) ==
  Obj([k \in (DOMAIN a.f) \cup (DOMAIN b.f) |->
         IF k \notin DOMAIN b.f THEN a.f[k]
         ELSE IF k \in DOMAIN a.f /\ a.f[k].t = "obj" /\ b.f[k].t = "obj"
         THEN SpreadDeep(a.f[k], b.f[k])
         ELSE b.f[k]])

\* { ...a, ...b }: the own properties of b over those of a, one level deep
Spread(a, b) ==
  Obj([k \in (DOMAIN a.f) \cup (DOMAIN b.f) |-> IF k \in DOMAIN b.f THEN b.f[k] ELSE a.f[k]])

\* structuredClone(v): a deep copy; on values the copy is the value itself
structuredClone(v) == v

(***************************************************************************)
(* Keys and the path walk                                                  *)
(***************************************************************************)
StrKey(s) == [name |-> s, ty |-> "string"]

NumKey(s) == [name |-> s, ty |-> "number"]

\* Number.isFinite(key), of a key that is a number
IsFinite(key) == key.name \notin {"NaN", "Infinity", "-Infinity"}

\* mutant of validateKeys: only the first key is looked at
validateKeysFirstOnly(keys) ==
  \A i \in 1..Len(keys) :
    i = 1 => IF keys[i].ty = "number" THEN IsFinite(keys[i]) ELSE keys[i].ty = "string"

validateKeys(keys) ==
  \A i \in 1..Len(keys) :
    IF keys[i].ty = "number" THEN IsFinite(keys[i]) ELSE keys[i].ty = "string"

RECURSIVE setAtPathCreating(_, _, _)
\* mutant of setAtPath: a missing container is created whatever the next key
setAtPathCreating(current, keys, value) ==
  IF Len(keys) = 1
  THEN [ok |-> TRUE, err |-> "none", root |-> Put(current, keys[1].name, value)]
  ELSE LET key == keys[1]
           missing == IsNullish(Prop(current, key.name))
           created == IF missing THEN Put(current, key.name, EmptyObj) ELSE current
           next == Prop(created, key.name)
       IN IF ~IsObject(next)
          THEN [ok |-> FALSE, err |-> "TraversalFailure", root |-> created]
          ELSE LET r == setAtPathCreating(next, Tail(keys), value)
               IN [ok |-> r.ok, err |-> r.err, root |-> Put(created, key.name, r.root)]

RECURSIVE setAtPath(_, _, _)
\* the walk of #setAtPath from `current`; root is `current` as the walk left it
setAtPath(current, keys, value) ==
  IF Len(keys) = 1
  THEN [ok |-> TRUE, err |-> "none", root |-> Put(current, keys[1].name, value)]
  ELSE LET key == keys[1]
           nextKey == keys[2]
           missing == IsNullish(Prop(current, key.name))
       IN IF missing /\ nextKey.ty = "number"
          THEN [ok |-> FALSE, err |-> "ArrayAutoCreateRefused", root |-> current]
          ELSE LET created == IF missing THEN Put(current, key.name, EmptyObj) ELSE current
                   next == Prop(created, key.name)
               IN IF ~IsObject(next)
                  THEN [ok |-> FALSE, err |-> "TraversalFailure", root |-> created]
                  ELSE LET r == setAtPath(next, Tail(keys), value)
                       IN [ok |-> r.ok, err |-> r.err, root |-> Put(created, key.name, r.root)]

RECURSIVE getPathFrom(_, _)
\* the loop of getPath
getPathFrom(current, keys) ==
  IF Len(keys) = 0 THEN current
  ELSE IF ~IsObject(current) THEN Undef
  ELSE getPathFrom(Prop(current, keys[1].name), Tail(keys))

(***************************************************************************)
(* Updaters: a partial object, or a function that mutates its argument     *)
(***************************************************************************)
Partial(p) == [keys |-> <<>>, value |-> Undef, fn |-> FALSE, partial |-> p, throws |-> FALSE]

\* a mutator: sets value at keys in its argument, then returns or throws
Mutator(keys, value, throws) ==
  [keys |-> keys, value |-> value, fn |-> TRUE, partial |-> EmptyObj, throws |-> throws]

\* updater(cloned): the argument as the call left it, and whether it returned
RunMutator(u, cloned) ==
  LET r == setAtPath(cloned, u.keys, u.value)
  IN [ok |-> r.ok /\ ~u.throws,
      err |-> IF ~r.ok THEN r.err ELSE IF u.throws THEN "MutatorThrew" ELSE "none",
      root |-> r.root]

(***************************************************************************)
(* Files                                                                   *)
(***************************************************************************)
NoFile == [t |-> "nofile"]

Garbage == [t |-> "garbage"]

\* mutant of JSONNorm: nested objects are written as null
JSONNormFlat(v) ==
  IF v.t = "obj"
  THEN Obj([k \in DOMAIN v.f |-> IF v.f[k].t = "obj" THEN Null ELSE v.f[k]])
  ELSE v

RECURSIVE JSONNorm(_)
\* what JSON.stringify keeps of a value: undefined properties are dropped, NaN
\* becomes null
JSONNorm(v) ==
  IF v.t = "obj"
  THEN Obj([k \in {n \in DOMAIN v.f : v.f[n].t # "undefined"} |-> JSONNorm(v.f[k])])
  ELSE IF v.t = "arr"
  THEN [t |-> "arr",
        f |-> [k \in DOMAIN v.f |-> IF v.f[k].t = "undefined" THEN Null ELSE JSONNorm(v.f[k])]]
  ELSE IF v.t = "nan" THEN Null
  ELSE v

\* JSON.stringify(data, null, 2)
Stringify(v) == [t |-> "text", doc |-> JSONNorm(v)]

CanParse(content) == content.t = "text"

\* JSON.parse(content)
Parse(content) == content.doc

(***************************************************************************)
(* Inputs                                                                  *)
(***************************************************************************)
\* options.defaultFactory ?? (() => ({}))
defaultFactory == EmptyObj

DocA1 == Obj([k \in {"a"} |-> Num(1)])

DocAB2 == Obj([k \in {"a"} |-> Obj([j \in {"b"} |-> Num(2)])])

\* key sequences the callers pass to setPath
Paths ==
  { <<StrKey("a"), StrKey("b")>>,
    <<StrKey("c"), StrKey("d"), NumKey("0")>>,
    <<[name |-> "a", ty |-> "object"]>>,
    <<>> }

\* key sequences the callers pass to setPathAndSave
SavePaths ==
  { <<StrKey("a"), StrKey("b")>>,
    <<[name |-> "a", ty |-> "object"]>>,
    <<>> }

PathValues == {Num(2)}

\* updaters the callers pass to update and updateAndSave
Updaters ==
  { Partial(DocA1),
    Mutator(<<StrKey("c")>>, Num(1), TRUE) }

\* what the target path can hold when the store is constructed
InitialFiles == {NoFile, Garbage, Stringify(DocA1)}

(***************************************************************************)
(* State                                                                   *)
(***************************************************************************)
VARIABLES
  data,         \* JSONStore.#data
  dirty,        \* JSONStore.#dirty
  initialized,  \* JSONStore.#initialized
  queue,        \* AsyncMutex.#queue: the promise at the tail (0: Promise.resolve())
  resolved,     \* the promises of the chain that are resolved
  ncalls,       \* number of runExclusive calls made so far
  call,         \* per runExclusive call: its unit of work, its locals, its position
  disk,         \* content of the file at #filePath
  dirOk,        \* whether dirname(#filePath) exists
  tmp,          \* per call: the temporary file of its #writeAtomic
  started,      \* history: the calls in the order their bodies began
  thrown,       \* history: the error the last step delivered to a caller (thrown by
                \* the call made in that step, or rejecting the call settled in it)
  alias,        \* the objects of #data and of a caller by identity (SpecAlias)
  prior,        \* history: what the store instance used before this one held (SpecTrip)
  logger,       \* MigrationLogger.#migrated, #skipped and #failed (SpecLogger)
  logcalls,     \* history: the calls of migrated, skipped and failed made so far
  obj           \* the object handed to the transform utilities (SpecRename)

vars ==
  <<data, dirty, initialized, queue, resolved, ncalls, call, disk, dirOk, tmp, started, thrown,
    alias, prior, logger, logcalls, obj>>

Calls == 1..MaxCalls

NoTmp == [t |-> "none"]

EmptyContent == [t |-> "empty"]

PartialContent == [t |-> "partial"]

Orphan == [t |-> "orphan"]

IdleCall ==
  [backup |-> Undef, kind |-> "none", old |-> NoFile, pc |-> "idle", pre |-> Undef,
   prev |-> 0, touched |-> FALSE, upd |-> Partial(EmptyObj), wdata |-> Undef,
   werr |-> FALSE, predirty |-> FALSE, tmpMade |-> FALSE, discarded |-> FALSE,
   awaits |-> 0]

\* Spec and SpecSync do not follow object identity
NoAlias == [t |-> "none"]

\* the store instance is the first one on its path
NoPrior == [t |-> "none", doc |-> Undef, dirty |-> FALSE]

\* new MigrationLogger(): the three arrays are empty
NoLogger == [migrated |-> <<>>, skipped |-> <<>>, failed |-> <<>>]

\* no call of the logger has been made
NoLogCalls == [migrated |-> 0, skipped |-> 0, failed |-> 0]

Init ==
  /\ data = defaultFactory
  /\ dirty = FALSE
  /\ initialized = FALSE
  /\ queue = 0
  /\ resolved = {0}
  /\ ncalls = 0
  /\ call = [c \in Calls |-> IdleCall]
  /\ dirOk \in BOOLEAN
  /\ disk \in (IF dirOk THEN InitialFiles ELSE {NoFile})
  /\ tmp = [c \in Calls |-> NoTmp]
  /\ started = <<>>
  /\ thrown = "none"
  /\ alias = NoAlias
  /\ prior = NoPrior
  /\ logger = NoLogger
  /\ logcalls = NoLogCalls
  /\ obj = EmptyObj

BodyPcs ==
  {"access", "load_read", "reload_read", "fn",
   "w_open", "w_write", "w_sync", "w_close", "w_rename", "w_unlink"}

InBody(c) == call[c].pc \in BodyPcs

(***************************************************************************)
(* AsyncMutex.runExclusive                                                 *)
(***************************************************************************)
\* mutant of Acquired: the body does not wait for the previous unit
AcquiredWithoutWait(c) == TRUE

\* `await prev` has passed: the promise that was the tail at the call is resolved
Acquired(c) == call[c].prev \in resolved

\* mutant of Release: release() resolves every promise of the chain
ReleaseAll(c) == resolved \cup Calls

\* release(): resolves the promise this call left at the tail
Release(c) == resolved \cup {c}

\* mutant of PrevOf: every call awaits the first promise of the chain
PrevIsFirst(q) == 0

\* const prev = this.#queue
PrevOf(q) == q

\* up to `await prev`: a new promise becomes the tail, the old tail is awaited
Enqueue(k, u) ==
  /\ ncalls < MaxCalls
  /\ ncalls' = ncalls + 1
  /\ call' = [call EXCEPT ![ncalls + 1] =
                [IdleCall EXCEPT !.kind = k, !.upd = u, !.prev = PrevOf(queue), !.pc = "queued"]]
  /\ queue' = ncalls + 1
  /\ UNCHANGED <<data, dirty, initialized, resolved, disk, dirOk, tmp, started>>
  /\ thrown' = "none"
  /\ UNCHANGED <<alias, prior, logger, logcalls, obj>>

\* a settled call keeps no locals (and the history of whether its write had
\* created its temporary file and whether its reload replaced a dirty document)
Settle(r, outcome) ==
  [IdleCall EXCEPT !.pc = outcome, !.tmpMade = r.tmpMade, !.discarded = r.discarded]

\* mutant of Return: release() is called on the error path only
ReturnHoldingQueue(c, cl) ==
  /\ call' = [cl EXCEPT ![c] = Settle(cl[c], "done")]
  /\ UNCHANGED resolved

\* the body returned: `return await fn()` then `finally { release() }`
Return(c, cl) ==
  /\ call' = [cl EXCEPT ![c] = Settle(cl[c], "done")]
  /\ resolved' = Release(c)

\* mutant of Throw: an error leaves the queue held
ThrowHoldingQueue(c, cl) ==
  /\ call' = [cl EXCEPT ![c] = Settle(cl[c], "failed")]
  /\ UNCHANGED resolved

\* the body threw: the error passes through `finally { release() }`
Throw(c, cl) ==
  /\ call' = [cl EXCEPT ![c] = Settle(cl[c], "failed")]
  /\ resolved' = Release(c)

(***************************************************************************)
(* The update logic shared by update and updateAndSave                     *)
(***************************************************************************)
\* typeof updater === "function" ? (clone, mutate, take the clone) : spread
ApplyUpdater(u, d) ==
  IF u.fn
  THEN RunMutator(u, structuredClone(d))
  ELSE [ok |-> TRUE, err |-> "none", root |-> Spread(d, u.partial)]

\* a synchronous writer that runs while an updateAndSave is suspended in its
\* write is recorded in that call's history field `touched`
Touch(cl) ==
  [c \in Calls |-> IF cl[c].kind = "updateAndSave" /\ cl[c].pc \in BodyPcs
                   THEN [cl[c] EXCEPT !.touched = TRUE]
                   ELSE cl[c]]

(***************************************************************************)
(* Calls of the queue-protected operations (up to their `await prev`)      *)
(***************************************************************************)
\* mutant of assertInitialized: the check is skipped
assertInitializedSkipped == TRUE

\* #assertInitialized() returns
assertInitialized == initialized

\* a call throws e (an async one: returns a promise rejected with e) before it
\* changed or enqueued anything
Rejects(e) ==
  /\ thrown' = e
  /\ UNCHANGED <<data, dirty, initialized, queue, resolved, ncalls, call, disk, dirOk, tmp,
                 started, alias, prior, logger, logcalls, obj>>

load == Enqueue("load", Partial(EmptyObj))

reload ==
  IF ~assertInitialized
  THEN Rejects("NotInitialized")
  ELSE Enqueue("reload", Partial(EmptyObj))

\* mutant of save: the check is left to the body that runs under the queue
saveCheckedInBody == Enqueue("save", Partial(EmptyObj))

save ==
  IF ~assertInitialized
  THEN Rejects("NotInitialized")
  ELSE Enqueue("save", Partial(EmptyObj))

updateAndSave(u) ==
  IF ~assertInitialized
  THEN Rejects("NotInitialized")
  ELSE Enqueue("updateAndSave", u)

setPathAndSave(keys, value) ==
  IF ~validateKeys(keys)
  THEN Rejects("ValidationFailure")
  ELSE IF Len(keys) = 0
  THEN Rejects("EmptyPath")
  ELSE updateAndSave(Mutator(keys, value, FALSE))

_runExclusive == Enqueue("fn", Partial(EmptyObj))

(***************************************************************************)
(* Synchronous operations                                                  *)
(***************************************************************************)
\* a synchronous call throws e before it changed anything
Throws(e) ==
  /\ thrown' = e
  /\ UNCHANGED <<data, dirty, call>>

\* mutant of Updated: the mutator is run on #data itself, not on a clone
UpdatedInPlace(u, d) == ApplyUpdater(u, d).root

\* #data after the body of update(u) ran on document d
Updated(u, d) ==
  LET r == ApplyUpdater(u, d)
  IN IF r.ok THEN r.root ELSE d

\* mutant of update: isDirty is set only when the document changed
updateDirtyIfChanged(u) ==
  /\ IF ~assertInitialized
     THEN Throws("NotInitialized")
     ELSE LET r == ApplyUpdater(u, data)
          IN /\ data' = Updated(u, data)
             /\ dirty' = IF r.ok /\ r.root # data THEN TRUE ELSE dirty
             /\ call' = IF r.ok THEN Touch(call) ELSE call
             /\ thrown' = r.err
  /\ UNCHANGED <<initialized, queue, resolved, ncalls, disk, dirOk, tmp, started, alias, prior, logger, logcalls, obj>>

update(u) ==
  /\ IF ~assertInitialized
     THEN Throws("NotInitialized")
     ELSE LET r == ApplyUpdater(u, data)
          IN /\ data' = Updated(u, data)
             /\ dirty' = IF r.ok THEN TRUE ELSE dirty
             /\ call' = IF r.ok THEN Touch(call) ELSE call
             /\ thrown' = r.err
  /\ UNCHANGED <<initialized, queue, resolved, ncalls, disk, dirOk, tmp, started, alias, prior, logger, logcalls, obj>>

setPath(keys, value) ==
  IF ~validateKeys(keys)
  THEN /\ Throws("ValidationFailure")
       /\ UNCHANGED <<initialized, queue, resolved, ncalls, disk, dirOk, tmp, started, alias, prior, logger, logcalls, obj>>
  ELSE IF Len(keys) = 0
  THEN /\ Throws("EmptyPath")
       /\ UNCHANGED <<initialized, queue, resolved, ncalls, disk, dirOk, tmp, started, alias, prior, logger, logcalls, obj>>
  ELSE update(Mutator(keys, value, FALSE))

_setData(d) ==
  /\ IF ~assertInitialized
     THEN Throws("NotInitialized")
     ELSE /\ data' = d
          /\ dirty' = TRUE
          /\ call' = Touch(call)
          /\ thrown' = "none"
  /\ UNCHANGED <<initialized, queue, resolved, ncalls, disk, dirOk, tmp, started, alias, prior, logger, logcalls, obj>>

(***************************************************************************)
(* Bodies: from `await prev` to the first suspension                       *)
(***************************************************************************)
Begins(c, k) ==
  /\ call[c].pc = "queued"
  /\ call[c].kind = k
  /\ Acquired(c)
  /\ started' = Append(started, c)

\* #writeAtomic(d) up to `await open(tmpPath, "w")`
StartWrite(cl, c, d) ==
  [cl EXCEPT ![c].wdata = d, ![c].werr = FALSE, ![c].old = disk, ![c].pc = "w_open"]

\* mutant of BeginLoad: the store counts as loaded before anything was read
BeginLoadInitializesEarly(c) ==
  /\ Begins(c, "load")
  /\ call' = [call EXCEPT ![c].pc = "access"]
  /\ initialized' = TRUE
  /\ UNCHANGED <<data, dirty, queue, resolved, ncalls, disk, dirOk, tmp>>
  /\ thrown' = "none"
  /\ UNCHANGED <<alias, prior, logger, logcalls, obj>>

BeginLoad(c) ==
  /\ Begins(c, "load")
  /\ call' = [call EXCEPT ![c].pc = "access"]
  /\ UNCHANGED <<data, dirty, initialized, queue, resolved, ncalls, disk, dirOk, tmp>>
  /\ thrown' = "none"
  /\ UNCHANGED <<alias, prior, logger, logcalls, obj>>

\* mutant of BeginReload: isDirty is cleared before the file is read
BeginReloadClearsDirty(c) ==
  /\ Begins(c, "reload")
  /\ call' = [call EXCEPT ![c].pc = "reload_read"]
  /\ dirty' = FALSE
  /\ UNCHANGED <<data, initialized, queue, resolved, ncalls, disk, dirOk, tmp>>
  /\ thrown' = "none"
  /\ UNCHANGED <<alias, prior, logger, logcalls, obj>>

BeginReload(c) ==
  /\ Begins(c, "reload")
  /\ call' = [call EXCEPT ![c].pc = "reload_read"]
  /\ UNCHANGED <<data, dirty, initialized, queue, resolved, ncalls, disk, dirOk, tmp>>
  /\ thrown' = "none"
  /\ UNCHANGED <<alias, prior, logger, logcalls, obj>>

BeginSave(c) ==
  /\ Begins(c, "save")
  /\ call' = StartWrite(call, c, data)
  /\ UNCHANGED <<data, dirty, initialized, queue, resolved, ncalls, disk, dirOk, tmp>>
  /\ thrown' = "none"
  /\ UNCHANGED <<alias, prior, logger, logcalls, obj>>

\* mutant of DuringWrite: the updated document is held back until the write is done
DuringWriteHeldBack(updated, backup) == backup

\* #data from the assignment in updateAndSave's try block until the write settles
DuringWrite(updated, backup) == updated

BeginUpdateAndSave(c) ==
  /\ Begins(c, "updateAndSave")
  /\ LET backup == structuredClone(data)
         r == ApplyUpdater(call[c].upd, data)
         cl == [call EXCEPT ![c].backup = backup, ![c].pre = data, ![c].predirty = dirty]
     IN IF r.ok
        THEN /\ data' = DuringWrite(r.root, backup)
             /\ call' = StartWrite(cl, c, r.root)
             /\ UNCHANGED resolved
             /\ thrown' = "none"
        ELSE /\ data' = backup
             /\ Throw(c, cl)
             /\ thrown' = r.err
  /\ UNCHANGED <<dirty, initialized, queue, ncalls, disk, dirOk, tmp>>
  /\ UNCHANGED <<alias, prior, logger, logcalls, obj>>

\* mutant of BeginFn: the queue is freed when the unit starts, not when it settles
BeginFnReleasing(c) ==
  /\ Begins(c, "fn")
  /\ call' = [call EXCEPT ![c].pc = "fn"]
  /\ resolved' = Release(c)
  /\ UNCHANGED <<data, dirty, initialized, queue, ncalls, disk, dirOk, tmp>>
  /\ thrown' = "none"
  /\ UNCHANGED <<alias, prior, logger, logcalls, obj>>

BeginFn(c) ==
  /\ Begins(c, "fn")
  /\ call' = [call EXCEPT ![c].pc = "fn"]
  /\ UNCHANGED <<data, dirty, initialized, queue, resolved, ncalls, disk, dirOk, tmp>>
  /\ thrown' = "none"
  /\ UNCHANGED <<alias, prior, logger, logcalls, obj>>

\* mutant of FnAwaits: a call made from inside a unit of work does not wait
\* for the queue
FnAwaitsReentrant(c, k, u) ==
  /\ call[c].pc = "fn"
  /\ call[c].awaits = 0
  /\ k \notin {"load", "fn"} => assertInitialized
  /\ ncalls < MaxCalls
  /\ ncalls' = ncalls + 1
  /\ call' = [call EXCEPT ![ncalls + 1] =
                            [IdleCall EXCEPT !.kind = k, !.upd = u, !.prev = 0,
                                             !.pc = "queued"],
                          ![c].awaits = ncalls + 1]
  /\ queue' = ncalls + 1
  /\ UNCHANGED <<data, dirty, initialized, resolved, disk, dirOk, tmp, started>>
  /\ thrown' = "none"
  /\ UNCHANGED <<alias, prior, logger, logcalls, obj>>

\* the unit of work c calls an operation of kind k of its own store, which
\* reaches runExclusive, and awaits it: `await this.save()` inside fn
FnAwaits(c, k, u) ==
  /\ call[c].pc = "fn"
  /\ call[c].awaits = 0
  /\ k \notin {"load", "fn"} => assertInitialized
  /\ ncalls < MaxCalls
  /\ ncalls' = ncalls + 1
  /\ call' = [call EXCEPT ![ncalls + 1] =
                            [IdleCall EXCEPT !.kind = k, !.upd = u, !.prev = PrevOf(queue),
                                             !.pc = "queued"],
                          ![c].awaits = ncalls + 1]
  /\ queue' = ncalls + 1
  /\ UNCHANGED <<data, dirty, initialized, resolved, disk, dirOk, tmp, started>>
  /\ thrown' = "none"
  /\ UNCHANGED <<alias, prior, logger, logcalls, obj>>

\* the unit of work passed to _runExclusive settles; a unit that awaits an
\* operation goes on when that operation has settled
FnSettles(c, ok) ==
  /\ call[c].pc = "fn"
  /\ IF call[c].awaits = 0 THEN TRUE ELSE call[call[c].awaits].pc \in {"done", "failed"}
  /\ IF ok THEN Return(c, call) ELSE Throw(c, call)
  /\ UNCHANGED <<data, dirty, initialized, queue, ncalls, disk, dirOk, tmp, started>>
  /\ thrown' = IF ok THEN "none" ELSE "FnError"
  /\ UNCHANGED <<alias, prior, logger, logcalls, obj>>

(***************************************************************************)
(* load and reload                                                         *)
(***************************************************************************)
\* mutant of LoadAccess: a load that fails on the directory leaves the store
\* uninitialized
LoadAccessResetting(c, ok) ==
  /\ call[c].pc = "access"
  /\ IF dirOk /\ ok
     THEN /\ call' = [call EXCEPT ![c].pc = "load_read"]
          /\ UNCHANGED <<resolved, initialized>>
          /\ thrown' = "none"
     ELSE /\ Throw(c, call)
          /\ initialized' = FALSE
          /\ thrown' = "DirectoryMissing"
  /\ UNCHANGED <<data, dirty, queue, ncalls, disk, dirOk, tmp, started>>
  /\ UNCHANGED <<alias, prior, logger, logcalls, obj>>

\* await access(dir)
LoadAccess(c, ok) ==
  /\ call[c].pc = "access"
  /\ IF dirOk /\ ok
     THEN /\ call' = [call EXCEPT ![c].pc = "load_read"]
          /\ UNCHANGED resolved
          /\ thrown' = "none"
     ELSE /\ Throw(c, call)
          /\ thrown' = "DirectoryMissing"
  /\ UNCHANGED <<data, dirty, initialized, queue, ncalls, disk, dirOk, tmp, started>>
  /\ UNCHANGED <<alias, prior, logger, logcalls, obj>>

\* how `await readFile(this.#filePath, "utf-8")` settles: with the content,
\* with ENOENT, or (~ok) with another error
ReadFile(ok) == IF ~ok THEN "EIO" ELSE IF disk = NoFile THEN "ENOENT" ELSE "content"

\* mutant of LoadRead: a store that is already initialized keeps its document
\* when the file is read again
LoadReadKeeping(c, ok) ==
  /\ call[c].pc = "load_read"
  /\ IF ReadFile(ok) = "EIO"
     THEN /\ Throw(c, call)
          /\ thrown' = "IOError"
          /\ UNCHANGED <<data, dirty, initialized>>
     ELSE IF ReadFile(ok) = "ENOENT"
     THEN /\ call' = StartWrite(call, c, defaultFactory)
          /\ thrown' = "none"
          /\ UNCHANGED <<data, dirty, initialized, resolved>>
     ELSE IF CanParse(disk)
     THEN /\ data' = IF initialized THEN data ELSE Parse(disk)
          /\ initialized' = TRUE
          /\ dirty' = IF initialized THEN dirty ELSE FALSE
          /\ Return(c, call)
          /\ thrown' = "none"
     ELSE /\ Throw(c, call)
          /\ thrown' = "ParseError"
          /\ UNCHANGED <<data, dirty, initialized>>
  /\ UNCHANGED <<queue, ncalls, disk, dirOk, tmp, started>>
  /\ UNCHANGED <<alias, prior, logger, logcalls, obj>>

\* #readOrCreateDefault from `await readFile` and, when it returns without
\* writing, the rest of load's body
LoadRead(c, ok) ==
  /\ call[c].pc = "load_read"
  /\ IF ReadFile(ok) = "EIO"
     THEN /\ Throw(c, call)
          /\ thrown' = "IOError"
          /\ UNCHANGED <<data, dirty, initialized>>
     ELSE IF ReadFile(ok) = "ENOENT"
     THEN /\ call' = StartWrite(call, c, defaultFactory)
          /\ thrown' = "none"
          /\ UNCHANGED <<data, dirty, initialized, resolved>>
     ELSE IF CanParse(disk)
     THEN /\ data' = Parse(disk)
          /\ initialized' = TRUE
          /\ dirty' = FALSE
          /\ Return(c, call)
          /\ thrown' = "none"
     ELSE /\ Throw(c, call)
          /\ thrown' = "ParseError"
          /\ UNCHANGED <<data, dirty, initialized>>
  /\ UNCHANGED <<queue, ncalls, disk, dirOk, tmp, started>>
  /\ UNCHANGED <<alias, prior, logger, logcalls, obj>>

\* mutant of ReloadRead: a missing file is created with the default document,
\* as load does
ReloadReadCreating(c, ok) ==
  /\ call[c].pc = "reload_read"
  /\ IF ReadFile(ok) = "ENOENT"
     THEN /\ call' = StartWrite(call, c, defaultFactory)
          /\ thrown' = "none"
          /\ UNCHANGED <<data, dirty, resolved>>
     ELSE IF ReadFile(ok) = "content" /\ CanParse(disk)
     THEN /\ data' = Parse(disk)
          /\ dirty' = FALSE
          /\ Return(c, [call EXCEPT ![c].discarded = dirty])
          /\ thrown' = "none"
     ELSE /\ Throw(c, call)
          /\ thrown' = IF ReadFile(ok) = "EIO" THEN "IOError" ELSE "ParseError"
          /\ UNCHANGED <<data, dirty>>
  /\ UNCHANGED <<initialized, queue, ncalls, disk, dirOk, tmp, started>>
  /\ UNCHANGED <<alias, prior, logger, logcalls, obj>>

\* reload's body from `await readFile`
ReloadRead(c, ok) ==
  /\ call[c].pc = "reload_read"
  /\ IF ReadFile(ok) = "content" /\ CanParse(disk)
     THEN /\ data' = Parse(disk)
          /\ dirty' = FALSE
          /\ Return(c, [call EXCEPT ![c].discarded = dirty])
          /\ thrown' = "none"
     ELSE /\ Throw(c, call)
          /\ thrown' = IF ReadFile(ok) = "EIO" THEN "IOError"
                        ELSE IF ReadFile(ok) = "ENOENT" THEN "FileMissing"
                        ELSE "ParseError"
          /\ UNCHANGED <<data, dirty>>
  /\ UNCHANGED <<initialized, queue, ncalls, disk, dirOk, tmp, started>>
  /\ UNCHANGED <<alias, prior, logger, logcalls, obj>>

(***************************************************************************)
(* #writeAtomic, one action per awaited file-system call                   *)
(***************************************************************************)
\* mutant of AfterWrite: load does not adopt what it wrote
AfterWriteNotAdopted(c) ==
  /\ UNCHANGED <<data, initialized>>
  /\ dirty' = FALSE
  /\ Return(c, call)

\* the caller's code after `await this.#writeAtomic(...)` returned
AfterWrite(c) ==
  /\ IF call[c].kind = "load"
     THEN /\ data' = call[c].wdata
          /\ initialized' = TRUE
     ELSE UNCHANGED <<data, initialized>>
  /\ dirty' = FALSE
  /\ Return(c, call)

\* the caller's code after `await this.#writeAtomic(...)` threw
AfterWriteFailed(c) ==
  /\ IF call[c].kind = "updateAndSave"
     THEN data' = call[c].backup
     ELSE UNCHANGED data
  /\ UNCHANGED <<dirty, initialized>>
  /\ Throw(c, call)

\* await open(tmpPath, "w")
WOpen(c, ok) ==
  /\ call[c].pc = "w_open"
  /\ IF ok
     THEN /\ tmp' = [tmp EXCEPT ![c] = [t |-> "file", content |-> EmptyContent,
                                        closed |-> FALSE, synced |-> FALSE]]
          /\ call' = [call EXCEPT ![c].pc = "w_write", ![c].tmpMade = TRUE]
     ELSE /\ call' = [call EXCEPT ![c].pc = "w_unlink"]
          /\ UNCHANGED tmp
  /\ UNCHANGED <<data, dirty, initialized, queue, resolved, ncalls, disk, dirOk, started>>
  /\ thrown' = "none"
  /\ UNCHANGED <<alias, prior, logger, logcalls, obj>>

\* mutant of WWrite: the document is read from #data at the time of the write
WWriteCurrent(c, ok) ==
  /\ call[c].pc = "w_write"
  /\ IF ok
     THEN /\ tmp' = [tmp EXCEPT ![c].content = Stringify(data)]
          /\ call' = [call EXCEPT ![c].pc = "w_sync"]
     ELSE /\ tmp' = [tmp EXCEPT ![c].content = PartialContent]
          /\ call' = [call EXCEPT ![c].pc = "w_close", ![c].werr = TRUE]
  /\ UNCHANGED <<data, dirty, initialized, queue, resolved, ncalls, disk, dirOk, started>>
  /\ thrown' = "none"
  /\ UNCHANGED <<alias, prior, logger, logcalls, obj>>

\* await handle.writeFile(JSON.stringify(data, null, 2), "utf-8")
WWrite(c, ok) ==
  /\ call[c].pc = "w_write"
  /\ IF ok
     THEN /\ tmp' = [tmp EXCEPT ![c].content = Stringify(call[c].wdata)]
          /\ call' = [call EXCEPT ![c].pc = "w_sync"]
     ELSE /\ tmp' = [tmp EXCEPT ![c].content = PartialContent]
          /\ call' = [call EXCEPT ![c].pc = "w_close", ![c].werr = TRUE]
  /\ UNCHANGED <<data, dirty, initialized, queue, resolved, ncalls, disk, dirOk, started>>
  /\ thrown' = "none"
  /\ UNCHANGED <<alias, prior, logger, logcalls, obj>>

\* await handle.sync()
WSync(c, ok) ==
  /\ call[c].pc = "w_sync"
  /\ IF ok
     THEN /\ tmp' = [tmp EXCEPT ![c].synced = TRUE]
          /\ call' = [call EXCEPT ![c].pc = "w_close"]
     ELSE /\ call' = [call EXCEPT ![c].pc = "w_close", ![c].werr = TRUE]
          /\ UNCHANGED tmp
  /\ UNCHANGED <<data, dirty, initialized, queue, resolved, ncalls, disk, dirOk, started>>
  /\ thrown' = "none"
  /\ UNCHANGED <<alias, prior, logger, logcalls, obj>>

\* mutant of AfterClose: an error of writeFile or sync is swallowed
AfterCloseSwallowing(ok, werr) == IF ok THEN "w_rename" ELSE "w_unlink"

\* where control goes from `finally { await handle.close() }`: on to rename, or
\* with the pending error or close's own to the catch block
AfterClose(ok, werr) == IF ok /\ ~werr THEN "w_rename" ELSE "w_unlink"

\* finally { await handle.close() }
WClose(c, ok) ==
  /\ call[c].pc = "w_close"
  /\ tmp' = [tmp EXCEPT ![c].closed = TRUE]
  /\ call' = [call EXCEPT ![c].pc = AfterClose(ok, call[c].werr)]
  /\ UNCHANGED <<data, dirty, initialized, queue, resolved, ncalls, disk, dirOk, started>>
  /\ thrown' = "none"
  /\ UNCHANGED <<alias, prior, logger, logcalls, obj>>

\* what the target path holds once rename(tmpPath, #filePath) succeeded
Renamed(c) == tmp[c].content

\* await rename(tmpPath, this.#filePath)
WRename(c, ok) ==
  /\ call[c].pc = "w_rename"
  /\ IF ok
     THEN /\ disk' = Renamed(c)
          /\ tmp' = [tmp EXCEPT ![c] = NoTmp]
          /\ AfterWrite(c)
     ELSE /\ call' = [call EXCEPT ![c].pc = "w_unlink"]
          /\ UNCHANGED <<data, dirty, initialized, resolved, disk, tmp>>
  /\ UNCHANGED <<queue, ncalls, dirOk, started>>
  /\ thrown' = "none"
  /\ UNCHANGED <<alias, prior, logger, logcalls, obj>>

\* mutant of Unlinked: the catch block does not unlink
UnlinkedNever(f, ok) == f

\* what is at tmpPath after `try { await unlink(tmpPath) } catch {}`; a file that
\* stays is never opened again (its name is a fresh UUID), so its content is
\* not kept
Unlinked(f, ok) == IF ok \/ f = NoTmp THEN NoTmp ELSE Orphan

\* catch (err) { try { await unlink(tmpPath) } catch {} throw err }
WUnlink(c, ok) ==
  /\ call[c].pc = "w_unlink"
  /\ tmp' = [tmp EXCEPT ![c] = Unlinked(tmp[c], ok)]
  /\ AfterWriteFailed(c)
  /\ UNCHANGED <<queue, ncalls, disk, dirOk, started>>
  /\ thrown' = "IOError"
  /\ UNCHANGED <<alias, prior, logger, logcalls, obj>>

(***************************************************************************)
(* Specification                                                           *)
(***************************************************************************)
\* the synchronous call of this step returned
Returned == thrown' = "none"

\* Spec takes the calls that return (an async one: that reach runExclusive);
\* those that throw before are taken in SpecSync
Next ==
  \/ load
  \/ reload /\ Returned
  \/ save /\ Returned
  \/ \E u \in Updaters : updateAndSave(u) /\ Returned
  \/ \E keys \in SavePaths, v \in PathValues : setPathAndSave(keys, v) /\ Returned
  \/ _runExclusive
  \/ \E u \in Updaters : update(u) /\ Returned
  \/ \E keys \in Paths, v \in PathValues : setPath(keys, v) /\ Returned
  \/ _setData(defaultFactory) /\ Returned
  \/ \E c \in Calls : BeginLoad(c)
  \/ \E c \in Calls : BeginReload(c)
  \/ \E c \in Calls : BeginSave(c)
  \/ \E c \in Calls : BeginUpdateAndSave(c)
  \/ \E c \in Calls : BeginFn(c)
  \/ \E c \in Calls, ok \in BOOLEAN : FnSettles(c, ok)
  \/ \E c \in Calls, ok \in BOOLEAN : LoadAccess(c, ok)
  \/ \E c \in Calls, ok \in BOOLEAN : LoadRead(c, ok)
  \/ \E c \in Calls, ok \in BOOLEAN : ReloadRead(c, ok)
  \/ \E c \in Calls, ok \in BOOLEAN : WOpen(c, ok)
  \/ \E c \in Calls, ok \in BOOLEAN : WWrite(c, ok)
  \/ \E c \in Calls, ok \in BOOLEAN : WSync(c, ok)
  \/ \E c \in Calls, ok \in BOOLEAN : WClose(c, ok)
  \/ \E c \in Calls, ok \in BOOLEAN : WRename(c, ok)
  \/ \E c \in Calls, ok \in BOOLEAN : WUnlink(c, ok)

Spec == Init /\ [][Next]_vars

(***************************************************************************)
(* Properties of the queue                                                *)
(***************************************************************************)
WritePcs == {"w_open", "w_write", "w_sync", "w_close", "w_rename", "w_unlink"}

\* C1: at most one unit of work is between the start and the completion of
\* its body; a queued unit's body never begins while an earlier one is
\* suspended.
C1_MutualExclusion == Cardinality({c \in Calls : InBody(c)}) <= 1

\* a unit is suspended in its write while another one is queued behind it
C1_Witness ==
  \E c, d \in Calls : call[c].pc \in WritePcs /\ call[d].pc = "queued" /\ call[d].prev = c

\* C2: the bodies begin in the order in which runExclusive was called (calls
\* are numbered in call order).
C2_FifoOrder == \A i \in 1..Len(started) : started[i] = i

\* MaxCalls bodies have begun, the last one after waiting for a failed one
C2_Witness ==
  /\ Len(started) >= 3
  /\ \E c \in Calls : call[c].pc = "failed"

(***************************************************************************)
(* Properties of save and updateAndSave                                    *)
(***************************************************************************)
\* call c completes successfully in this step
Completes(c) == call[c].pc # "done" /\ call'[c].pc = "done"

\* call c fails in this step
Fails(c) == call[c].pc # "failed" /\ call'[c].pc = "failed"

NoneInFlight == \A c \in Calls : call[c].pc \in {"idle", "done", "failed"}

\* C3: when a save or updateAndSave completes successfully, isDirty is false
\* and the document on disk equals the document in memory, for every
\* interleaving with the synchronous operations.
C3_SavedIsClean ==
  [][\A c \in Calls :
       (call[c].kind \in {"save", "updateAndSave"} /\ Completes(c))
         => (dirty' = FALSE /\ CanParse(disk') /\ Parse(disk') = data')]_vars

\* C4: when no queue-protected operation is in flight, isDirty = false implies
\* that the document in memory is the one last written to or read from disk.
C4_CleanMeansPersisted ==
  (initialized /\ NoneInFlight /\ ~dirty) => (CanParse(disk) /\ Parse(disk) = data)

\* the document, isDirty and the file as they were when the body of a
\* not yet settled updateAndSave c began (the current ones if it has not begun)
PreDoc(c) == IF call[c].pc = "queued" THEN data ELSE call[c].pre

PreDirty(c) == IF call[c].pc = "queued" THEN dirty ELSE call[c].predirty

PreDisk(c) == IF call[c].pc = "queued" THEN disk ELSE call[c].old

\* C5: when updateAndSave fails (mutator or write), the in-memory document is
\* the one from immediately before the attempt, isDirty has the value it had
\* before and the file is unchanged.
C5_FailedIsNoOp ==
  [][\A c \in Calls :
       (call[c].kind = "updateAndSave" /\ Fails(c))
         => (data' = PreDoc(c) /\ dirty' = PreDirty(c) /\ disk' = PreDisk(c))]_vars

\* the part of C5 the code keeps in every interleaving: document and file
C5_DocAndFileRestored ==
  [][\A c \in Calls :
       (call[c].kind = "updateAndSave" /\ Fails(c))
         => (data' = PreDoc(c) /\ dirty' = dirty /\ disk' = PreDisk(c))]_vars

\* the document updateAndSave c computed from the one it found
UpdatedDoc(r) == ApplyUpdater(r.upd, r.pre).root

\* C6 as stated: while the write of an updateAndSave is under way (and no
\* synchronous writer has run meanwhile) the in-memory document is still the
\* document from before the call.
C6_HiddenUntilWritten ==
  \A c \in Calls :
    (call[c].kind = "updateAndSave" /\ call[c].pc \in WritePcs /\ ~call[c].touched)
      => data = call[c].pre

\* C6 amended: the updated document is the in-memory document from the start
\* of the write on (a reader sees it while the write is suspended), and a
\* failing call puts back the document from before the attempt.
C6_VisibleDuringWrite ==
  [][\A c \in Calls :
       call[c].kind = "updateAndSave"
         => /\ (call'[c].pc \in WritePcs /\ ~call'[c].touched) => data' = UpdatedDoc(call'[c])
            /\ Fails(c) => data' = PreDoc(c)]_vars

\* an updateAndSave is suspended in its write and the in-memory document is
\* already the updated one
C6_Witness ==
  \E c \in Calls :
    /\ call[c].kind = "updateAndSave"
    /\ call[c].pc \in WritePcs
    /\ ~call[c].touched
    /\ data # call[c].pre
    /\ data = UpdatedDoc(call[c])

(***************************************************************************)
(* Properties of update                                                    *)
(***************************************************************************)
MutatorErrors == {"MutatorThrew", "ArrayAutoCreateRefused", "TraversalFailure"}

\* C7: when the mutator passed to update throws, the in-memory document and
\* isDirty are as before the call, also when the mutator changed its argument
\* before throwing.
C7_ThrowingMutatorChangesNothing ==
  [][thrown' \in MutatorErrors => (data' = data /\ dirty' = dirty)]_vars

\* a mutator that set a key of its argument and then threw; the key is not in
\* the document
C7_Witness ==
  /\ initialized
  /\ thrown = "MutatorThrew"
  /\ RunMutator(Mutator(<<StrKey("c")>>, Num(1), TRUE), data).root # data
  /\ Prop(data, "c") = Undef

(***************************************************************************)
(* Properties of the atomic write                                          *)
(***************************************************************************)
\* the temporary file of c holds all of the new content, synced, and is closed
TmpComplete(c) ==
  tmp[c] = [t |-> "file", content |-> Stringify(call[c].wdata), closed |-> TRUE, synced |-> TRUE]

\* C9: the target changes only by the rename, which is issued only after the
\* temporary file was written in full, synced and closed; so at every step the
\* target holds the complete previous content or the complete new content.
C9_TargetOnlyByRename ==
  [][/\ disk' # disk
        => \E c \in Calls :
             /\ call[c].pc = "w_rename"
             /\ TmpComplete(c)
             /\ disk = call[c].old
             /\ disk' = Stringify(call[c].wdata)
     /\ \A c \in Calls : call'[c].pc \in WritePcs => disk' = call'[c].old]_vars

\* the temporary file is complete and about to be renamed over existing content
C9_Witness ==
  \E c \in Calls :
    /\ call[c].pc = "w_rename"
    /\ TmpComplete(c)
    /\ disk # NoFile
    /\ disk # Stringify(call[c].wdata)

\* the write of c fails in this step, after its temporary file was created
WriteFailsAfterOpen(c) == call[c].pc = "w_unlink" /\ tmp[c] # NoTmp /\ Fails(c)

\* C10 as stated: when the write fails after the temporary file was created, the
\* target is unchanged and no temporary file of the write remains.
C10_NoTmpRemains ==
  [][\A c \in Calls : WriteFailsAfterOpen(c) => (disk' = call[c].old /\ tmp'[c] = NoTmp)]_vars

\* C10 amended: the target is unchanged, and the temporary file is gone unless
\* its unlink failed too (that failure is swallowed and the file stays).
C10_TmpGoneUnlessUnlinkFailed ==
  [][\A c \in Calls :
       WriteFailsAfterOpen(c) => (disk' = call[c].old /\ tmp'[c] \in {NoTmp, Orphan})]_vars

\* one write failed after its temporary file was created and the file is gone;
\* another one failed and its temporary file stayed
C10_Witness ==
  \E c \in Calls, d \in Calls :
    /\ call[c].pc = "failed" /\ call[c].tmpMade /\ tmp[c] = NoTmp /\ disk # NoFile
    /\ call[d].pc = "failed" /\ call[d].tmpMade /\ tmp[d] = Orphan

(***************************************************************************)
(* Object identity: SpecAlias                                              *)
(*                                                                         *)
(* A heap of objects; a property holds a primitive or a reference.  The    *)
(* store's #data is the object `root`; `held` is what the caller got from  *)
(* its last read.  `data` stays the value of the object #data refers to.   *)
(***************************************************************************)
ObjIds == 1..MaxObjs

Ref(i) == [t |-> "ref", id |-> i]

Free == [t |-> "free"]

RECURSIVE Val(_, _)
\* the JSON value a property value stands for
Val(h, v) ==
  IF v.t = "ref"
  THEN Obj([k \in DOMAIN h[v.id].f |-> Val(h, h[v.id].f[k])])
  ELSE v

RECURSIVE Reach(_, _)
\* the objects reachable from a property value
Reach(h, v) ==
  IF v.t = "ref"
  THEN {v.id} \cup UNION {Reach(h, h[v.id].f[k]) : k \in DOMAIN h[v.id].f}
  ELSE {}

\* objects no one refers to any more are collected
Collect(h, rootId, v) ==
  [i \in ObjIds |-> IF i \in Reach(h, Ref(rootId)) \cup Reach(h, v) THEN h[i] ELSE Free]

FreshId(h) == CHOOSE i \in ObjIds : h[i] = Free /\ \A j \in ObjIds : h[j] = Free => i <= j

RECURSIVE Build(_, _)
RECURSIVE BuildProps(_, _, _, _)
\* new objects for the JSON value val: the heap with them, and the value to store
Build(h, val) ==
  IF val.t # "obj"
  THEN [heap |-> h, slot |-> val]
  ELSE LET i == FreshId(h)
           h1 == [h EXCEPT ![i] = EmptyObj]
       IN [heap |-> BuildProps(h1, i, val, DOMAIN val.f), slot |-> Ref(i)]

\* the properties `names` of val built into object i
BuildProps(h, i, val, names) ==
  IF names = {}
  THEN h
  ELSE LET k == CHOOSE n \in names : TRUE
           b == Build(h, val.f[k])
       IN BuildProps([b.heap EXCEPT ![i] = Put(b.heap[i], k, b.slot)], i, val, names \ {k})

\* structuredClone(x) of the object graph under property value v
CloneOnHeap(h, v) == Build(h, Val(h, v))

\* mutant of WalkHeap: at a value that is not a container the walk returns
\* that value
WalkHeapStopping(h, rootId, keys) ==
  LET RECURSIVE walk(_, _)
      walk(current, ks) ==
        IF Len(ks) = 0 THEN current
        ELSE IF current.t # "ref" THEN current
        ELSE walk(Prop(h[current.id], ks[1].name), Tail(ks))
  IN walk(Ref(rootId), keys)

\* the loop of getPath on the heap: `current` is a reference, not a copy
WalkHeap(h, rootId, keys) ==
  LET RECURSIVE walk(_, _)
      walk(current, ks) ==
        IF Len(ks) = 0 THEN current
        ELSE IF current.t # "ref" THEN Undef
        ELSE walk(Prop(h[current.id], ks[1].name), Tail(ks))
  IN walk(Ref(rootId), keys)

DocAB2C1 == Put(DocAB2, "c", Num(1))

AliasDocs == {DocAB2, DocA1, DocAB2C1}

AliasPaths == { <<StrKey("a")>>, <<StrKey("a"), StrKey("b")>>, <<StrKey("c"), StrKey("d")>> }

CallerKeys == {"a", "b"}

CallerValues == {Num(7), Num(8)}

InitAlias ==
  /\ \E d \in AliasDocs :
       /\ data = d
       /\ disk = Stringify(d)
       /\ alias = [root |-> 1, heap |-> Build([i \in ObjIds |-> Free], d).heap,
                   held |-> Undef, src |-> "none", op |-> "load"]
  /\ dirty = FALSE
  /\ initialized = TRUE
  /\ queue = 1
  /\ resolved = {0, 1}
  /\ ncalls = 1
  /\ call = [c \in Calls |-> IF c = 1 THEN Settle(IdleCall, "done") ELSE IdleCall]
  /\ dirOk = TRUE
  /\ tmp = [c \in Calls |-> NoTmp]
  /\ started = <<1>>
  /\ thrown = "none"
  /\ prior = NoPrior
  /\ logger = NoLogger
  /\ logcalls = NoLogCalls
  /\ obj = EmptyObj

\* a read hands v to the caller; what the caller held before is dropped
\* (where object identity is not followed, a read changes nothing)
Hands(h, v, from) ==
  /\ IF alias = NoAlias
     THEN UNCHANGED <<data, alias>>
     ELSE /\ alias' = [root |-> alias.root, heap |-> Collect(h, alias.root, v),
                       held |-> v, src |-> from, op |-> "read"]
          /\ data' = Val(alias'.heap, Ref(alias.root))
  /\ thrown' = "none"
  /\ UNCHANGED <<dirty, initialized, queue, resolved, ncalls, call, disk, dirOk, tmp, started,
                 prior, logger, logcalls, obj>>

\* get data()
getData ==
  IF ~assertInitialized
  THEN Rejects("NotInitialized")
  ELSE LET b == CloneOnHeap(Collect(alias.heap, alias.root, Undef), Ref(alias.root))
       IN Hands(b.heap, b.slot, "data")

\* _getDataSnapshot()
_getDataSnapshot ==
  IF ~assertInitialized
  THEN Rejects("NotInitialized")
  ELSE LET b == CloneOnHeap(Collect(alias.heap, alias.root, Undef), Ref(alias.root))
       IN Hands(b.heap, b.slot, "_getDataSnapshot")

\* getPath(...keys)
getPath(keys) ==
  IF ~assertInitialized
  THEN Rejects("NotInitialized")
  ELSE IF ~validateKeys(keys)
  THEN Rejects("ValidationFailure")
  ELSE Hands(alias.heap, WalkHeap(alias.heap, alias.root, keys), "getPath")

Bool(x) == [t |-> "bool", b |-> x]

\* hasPath(...keys): this.getPath(...keys) !== undefined
hasPath(keys) ==
  IF ~assertInitialized
  THEN Rejects("NotInitialized")
  ELSE IF ~validateKeys(keys)
  THEN Rejects("ValidationFailure")
  ELSE Hands(alias.heap, Bool(WalkHeap(alias.heap, alias.root, keys) # Undef), "hasPath")

\* the caller assigns to a property of the object it was handed
CallerMutates(name, v) ==
  /\ alias.held.t = "ref"
  /\ alias' = [alias EXCEPT !.heap[alias.held.id] = Put(@, name, v), !.op = "mutate"]
  /\ data' = Val(alias'.heap, Ref(alias.root))
  /\ thrown' = "none"
  /\ UNCHANGED <<dirty, initialized, queue, resolved, ncalls, call, disk, dirOk, tmp, started,
                 prior, logger, logcalls, obj>>

NextAlias ==
  \/ getData
  \/ _getDataSnapshot
  \/ \E keys \in AliasPaths : getPath(keys)
  \/ \E keys \in AliasPaths : hasPath(keys)
  \/ \E name \in CallerKeys, v \in CallerValues : CallerMutates(name, v)

SpecAlias == InitAlias /\ [][NextAlias]_vars

(***************************************************************************)
(* The interface of a store that is only loaded: SpecSync takes every      *)
(* synchronous call, also those that throw, and of the queue-protected     *)
(* operations other than load the calls that throw before they reach       *)
(* runExclusive                                                            *)
(***************************************************************************)
\* keys that are neither strings nor finite numbers
MalformedKeys ==
  { NumKey("NaN"), NumKey("Infinity"),
    [name |-> "null", ty |-> "object"],
    [name |-> "true", ty |-> "boolean"],
    [name |-> "a", ty |-> "object"] }

SyncPaths ==
  Paths \cup { <<StrKey("a")>>, <<StrKey("a"), StrKey("b"), StrKey("c")>>, <<StrKey("")>> }
        \cup { <<k>> : k \in MalformedKeys }
        \cup { <<StrKey("a"), NumKey("NaN")>> }

SyncUpdaters ==
  Updaters \cup { Mutator(<<StrKey("c"), StrKey("d"), NumKey("0")>>, Num(1), FALSE),
                  Mutator(<<StrKey("a"), StrKey("b")>>, Num(1), TRUE) }

SyncDocs == {defaultFactory, DocAB2}

NextSync ==
  \/ load
  \/ \E c \in Calls : BeginLoad(c)
  \/ \E c \in Calls, ok \in BOOLEAN : LoadAccess(c, ok)
  \/ \E c \in Calls, ok \in BOOLEAN : LoadRead(c, ok)
  \/ \E c \in Calls, ok \in BOOLEAN : WOpen(c, ok)
  \/ \E c \in Calls, ok \in BOOLEAN : WWrite(c, ok)
  \/ \E c \in Calls, ok \in BOOLEAN : WSync(c, ok)
  \/ \E c \in Calls, ok \in BOOLEAN : WClose(c, ok)
  \/ \E c \in Calls, ok \in BOOLEAN : WRename(c, ok)
  \/ \E c \in Calls, ok \in BOOLEAN : WUnlink(c, ok)
  \/ \E u \in SyncUpdaters : update(u)
  \/ \E keys \in SyncPaths, v \in PathValues : setPath(keys, v)
  \/ \E d \in SyncDocs : _setData(d)
  \/ reload /\ ~Returned
  \/ save /\ ~Returned
  \/ \E u \in SyncUpdaters : updateAndSave(u) /\ ~Returned
  \/ \E keys \in SyncPaths, v \in PathValues : setPathAndSave(keys, v) /\ ~Returned
  \/ getData
  \/ _getDataSnapshot
  \/ \E keys \in SyncPaths : getPath(keys)
  \/ \E keys \in SyncPaths : hasPath(keys)

SpecSync == Init /\ [][NextSync]_vars

(***************************************************************************)
(* Properties of the initialization guard                                  *)
(***************************************************************************)
\* a call of one of the operations that require a loaded store
GuardedCall ==
  \/ reload
  \/ save
  \/ \E u \in SyncUpdaters : update(u) \/ updateAndSave(u)
  \/ \E keys \in SyncPaths, v \in PathValues : setPath(keys, v) \/ setPathAndSave(keys, v)
  \/ \E keys \in SyncPaths : getPath(keys) \/ hasPath(keys)
  \/ getData
  \/ _getDataSnapshot
  \/ \E d \in SyncDocs : _setData(d)

\* C11: on a store on which no load has succeeded, every call of reload, save,
\* update, updateAndSave, setPath, setPathAndSave, getPath, hasPath, the data
\* getter, _getDataSnapshot and _setData fails, leaves the document, isDirty,
\* isInitialized and the file unchanged and enqueues nothing.
C11_UninitializedRejects ==
  [][(~initialized /\ GuardedCall)
       => /\ thrown' # "none"
          /\ UNCHANGED <<data, dirty, initialized, disk, queue, resolved, ncalls, call>>]_vars

\* a guarded call was rejected while the first load is suspended in the write
\* of the default document
C11_Witness ==
  /\ ~initialized
  /\ thrown = "NotInitialized"
  /\ \E c \in Calls : call[c].kind = "load" /\ call[c].pc \in WritePcs

\* C8: mutating a value obtained from the data getter, getPath or
\* _getDataSnapshot never changes the in-memory document (hence what a later
\* save writes) or isDirty.
C8_ReadsAreCopies ==
  [][alias'.op = "mutate" => (data' = data /\ dirty' = dirty)]_vars

\* what holds of the code: the values of the data getter and _getDataSnapshot
\* are copies
C8_ClonesAreCopies ==
  [][(alias'.op = "mutate" /\ alias.src \in {"data", "_getDataSnapshot"})
       => (data' = data /\ dirty' = dirty)]_vars

(***************************************************************************)
(* Properties of load and reload                                           *)
(***************************************************************************)
\* C12: load on a path whose directory exists and whose file does not writes
\* the default document through the atomic writer and, on success, leaves
\* isInitialized true, isDirty false and the in-memory document equal to the
\* default document and to the content of the file.
C12_LoadCreatesDefault ==
  [][\A c \in Calls :
       /\ (call'[c].kind = "load" /\ call'[c].pc \in WritePcs)
            => (call'[c].old = NoFile /\ call'[c].wdata = defaultFactory)
       /\ (call[c].kind = "load" /\ call[c].pc = "w_rename" /\ Completes(c))
            => /\ TmpComplete(c)
               /\ disk' = Stringify(defaultFactory)
               /\ initialized' /\ ~dirty'
               /\ data' = defaultFactory
               /\ Parse(disk') = data']_vars

\* the first call was a load that created the file
C12_Witness ==
  /\ ncalls = 1
  /\ call[1].pc = "done" /\ call[1].tmpMade
  /\ initialized /\ ~dirty
  /\ disk = Stringify(defaultFactory)


\* C13: a load that fails, for whatever reason, leaves the in-memory document,
\* isDirty and isInitialized as they were (no step of its body but its
\* successful completion changes them, so a never-loaded store stays as it was
\* constructed), and nothing of it reaches the target file; a failure of the
\* directory check, of the read or of the parse creates no file at all.
C13_FailedLoadChangesNothing ==
  [][/\ \A c \in Calls :
          (call[c].kind = "load" /\ call'[c] # call[c] /\ ~Completes(c))
            => /\ UNCHANGED <<data, dirty, initialized, disk>>
               /\ (Fails(c) /\ call[c].pc \in {"access", "load_read"})
                    => (tmp' = tmp /\ ~call'[c].tmpMade)
     /\ ~initialized' => (data' = defaultFactory /\ ~dirty')]_vars

\* every call was a load that failed before it wrote anything, on a file with
\* unparseable content
C13_Witness ==
  /\ ~initialized
  /\ disk = Garbage
  /\ ncalls = MaxCalls
  /\ \A c \in Calls : call[c].pc = "failed" /\ ~call[c].tmpMade


(***************************************************************************)
(* The store with its file changed from outside (removed, overwritten by   *)
(* another program): SpecExt                                               *)
(***************************************************************************)
\* what another program can leave at the target path
FileChanges == {NoFile, Garbage, Stringify(DocAB2)}

\* the file is removed or replaced from outside the store
ExternalChange(f) ==
  /\ dirOk
  /\ f # disk
  /\ disk' = f
  /\ thrown' = "none"
  /\ UNCHANGED <<data, dirty, initialized, queue, resolved, ncalls, call, dirOk, tmp, started,
                 alias, prior, logger, logcalls, obj>>

NextExt ==
  \/ load
  \/ reload /\ Returned
  \/ save /\ Returned
  \/ \E u \in Updaters : update(u) /\ Returned
  \/ \E c \in Calls : BeginLoad(c)
  \/ \E c \in Calls : BeginReload(c)
  \/ \E c \in Calls : BeginSave(c)
  \/ \E c \in Calls, ok \in BOOLEAN : LoadAccess(c, ok)
  \/ \E c \in Calls, ok \in BOOLEAN : LoadRead(c, ok)
  \/ \E c \in Calls, ok \in BOOLEAN : ReloadRead(c, ok)
  \/ \E c \in Calls, ok \in BOOLEAN : WOpen(c, ok)
  \/ \E c \in Calls, ok \in BOOLEAN : WWrite(c, ok)
  \/ \E c \in Calls, ok \in BOOLEAN : WSync(c, ok)
  \/ \E c \in Calls, ok \in BOOLEAN : WClose(c, ok)
  \/ \E c \in Calls, ok \in BOOLEAN : WRename(c, ok)
  \/ \E c \in Calls, ok \in BOOLEAN : WUnlink(c, ok)
  \/ \E f \in FileChanges : ExternalChange(f)

SpecExt == Init /\ [][NextExt]_vars

\* C14: reload on an initialized store whose file does not exist fails, with
\* FileMissing when the read reports the file missing, leaves the in-memory
\* document and isDirty unchanged and does not create the file: no step of a
\* reload writes to the target or creates a temporary file.
C14_ReloadMissingFileFails ==
  [][\A c \in Calls :
       /\ (disk = NoFile /\ \E ok \in BOOLEAN : ReloadRead(c, ok))
            => (Fails(c) /\ UNCHANGED <<data, dirty, initialized>> /\ disk' = NoFile)
       /\ (disk = NoFile /\ ReloadRead(c, TRUE)) => thrown' = "FileMissing"
       /\ (call[c].kind = "reload" /\ call'[c] # call[c])
            => (UNCHANGED <<disk, tmp>> /\ ~call'[c].tmpMade)]_vars

\* a reload has just failed with FileMissing on a store with unsaved changes,
\* and there is no file
C14_Witness ==
  /\ initialized
  /\ dirty
  /\ thrown = "FileMissing"
  /\ disk = NoFile
  /\ \A c \in Calls : tmp[c] = NoTmp


\* C15: reload replaces the in-memory document by the parsed content of the
\* file and clears isDirty only once the file was read and parsed, discarding
\* unsaved changes; when the content does not parse the call fails with a
\* parse error and the document and isDirty are unchanged.
C15_ReloadReplacesAfterParse ==
  [][\A c \in Calls :
       /\ (call[c].kind = "reload" /\ call[c].pc = "queued" /\ call'[c] # call[c])
            => UNCHANGED <<data, dirty>>
       /\ (\E ok \in BOOLEAN : ReloadRead(c, ok))
            => IF Completes(c)
               THEN CanParse(disk) /\ data' = Parse(disk) /\ ~dirty'
               ELSE Fails(c) /\ UNCHANGED <<data, dirty>>
       /\ (disk = Garbage /\ ReloadRead(c, TRUE))
            => (Fails(c) /\ thrown' = "ParseError")]_vars

\* a reload replaced a document with unsaved changes by the content another
\* program had left in the file
C15_Witness ==
  \E c \in Calls :
    /\ call[c].pc = "done"
    /\ call[c].discarded
    /\ ~dirty
    /\ disk = Stringify(DocAB2)
    /\ data = DocAB2


(***************************************************************************)
(* Properties of the queue seen through the operations                     *)
(***************************************************************************)
Settled(c) == call[c].pc \in {"done", "failed"}

\* C16: when save and then reload are called without awaiting in between,
\* the reload's read of the target begins only after the save's write has
\* settled (its rename is done or the write has failed), whatever the order in
\* which the I/O steps complete: while the save is unsettled the reload is
\* still waiting for the queue.
C16_SaveBeforeReload ==
  \A c \in Calls, d \in Calls :
    (c < d /\ call[c].kind = "save" /\ call[d].kind = "reload") => call[d].pc = "queued"

\* the save is about to rename its temporary file over the target while the
\* reload called right after it waits
C16_Witness ==
  \E c \in Calls, d \in Calls :
    /\ call[c].kind = "save" /\ call[c].pc = "w_rename"
    /\ call[d].kind = "reload" /\ call[d].pc = "queued" /\ call[d].prev = c
    /\ dirty

\* C17: when a queue-protected operation fails, the queue is released all the
\* same: the failure settles that call only, and the call queued behind it is
\* free to begin (and can succeed).
C17_FailureReleases ==
  [][\A c \in Calls :
       Fails(c) => /\ c \in resolved'
                   /\ \A d \in Calls \ {c} : call'[d] = call[d]
                   /\ \A d \in Calls : call'[d].prev = c => Acquired(d)']_vars

\* the second call failed and the third one, queued behind it, succeeded
C17_Witness ==
  /\ started = <<1, 2, 3>>
  /\ call[1].pc = "done"
  /\ call[2].pc = "failed"
  /\ call[3].pc = "done"

\* C18: a call begins its body only when every call made before it has
\* settled, and the queue is released by nothing but the settling of the
\* unit that holds it: while a unit of work does not complete, no operation
\* enqueued after it begins or settles.
C18_HungUnitBlocks ==
  [][/\ \A d \in Calls :
          (call[d].pc = "queued" /\ call'[d].pc # "queued")
            => \A c \in 1..(d - 1) : Settled(c)
     /\ \A c \in Calls :
          (c \in resolved' /\ c \notin resolved) => (Completes(c) \/ Fails(c))
     /\ \A c \in Calls, d \in Calls :
          (c < d /\ InBody(c) /\ InBody(c)') => call'[d].pc \in {"idle", "queued"}]_vars

\* a unit of work passed to _runExclusive has not settled and the save called
\* after it waits
C18_Witness ==
  \E c \in Calls, d \in Calls :
    /\ call[c].pc = "fn"
    /\ call[d].kind = "save" /\ call[d].pc = "queued" /\ call[d].prev = c


(***************************************************************************)
(* A second store instance on the same path, used after the first one:     *)
(* SpecTrip.  The caller awaits each call before it makes the next one.     *)
(***************************************************************************)
\* documents the caller sets: serializable, and with values JSON cannot hold
TripDocs ==
  { DocAB2,
    Obj([k \in {"a"} |-> Undef]),
    Obj([k \in {"a", "c"} |-> IF k = "a" THEN Num(1) ELSE NaN]) }

DocAC1 == Obj([k \in {"a"} |-> Obj([j \in {"c"} |-> Num(1)])])

\* the updater the caller passes: a partial whose key a holds a container
TripUpdaters == {Partial(DocAC1)}

\* new JSONStore(filePath) on the path of a store that was loaded and is not
\* used any more
NewInstance ==
  /\ prior = NoPrior
  /\ initialized
  /\ NoneInFlight
  /\ prior' = [t |-> "store", doc |-> data, dirty |-> dirty]
  /\ UNCHANGED <<logger, logcalls, obj>>
  /\ data' = defaultFactory
  /\ dirty' = FALSE
  /\ initialized' = FALSE
  /\ queue' = 0
  /\ thrown' = "none"
  /\ UNCHANGED <<resolved, ncalls, call, disk, dirOk, tmp, started, alias>>

NextTrip ==
  \/ NoneInFlight /\ load
  \/ NoneInFlight /\ save /\ Returned
  \/ \E d \in TripDocs : NoneInFlight /\ _setData(d) /\ Returned
  \/ \E u \in TripUpdaters : NoneInFlight /\ update(u) /\ Returned
  \/ \E u \in TripUpdaters : NoneInFlight /\ updateAndSave(u) /\ Returned
  \/ \E c \in Calls : BeginUpdateAndSave(c)
  \/ NewInstance
  \/ \E c \in Calls : BeginLoad(c)
  \/ \E c \in Calls : BeginSave(c)
  \/ \E c \in Calls, ok \in BOOLEAN : LoadAccess(c, ok)
  \/ \E c \in Calls, ok \in BOOLEAN : LoadRead(c, ok)
  \/ \E c \in Calls, ok \in BOOLEAN : WOpen(c, ok)
  \/ \E c \in Calls, ok \in BOOLEAN : WWrite(c, ok)
  \/ \E c \in Calls, ok \in BOOLEAN : WSync(c, ok)
  \/ \E c \in Calls, ok \in BOOLEAN : WClose(c, ok)
  \/ \E c \in Calls, ok \in BOOLEAN : WRename(c, ok)
  \/ \E c \in Calls, ok \in BOOLEAN : WUnlink(c, ok)

SpecTrip == Init /\ [][NextTrip]_vars

RECURSIVE IsJSON(_)
\* a serializable document: made of what JSON has
IsJSON(v) ==
  \/ v.t \in {"num", "str", "bool", "null"}
  \/ v.t \in {"obj", "arr"} /\ \A k \in DOMAIN v.f : IsJSON(v.f[k])

\* the first load of the new instance completes in this step
FreshLoadCompletes == prior # NoPrior /\ ~initialized /\ \E c \in Calls : Completes(c)

\* C19: for a serializable document D, after the in-memory document was set
\* to D and save succeeded, a load on a new store instance on the same path
\* yields a document equal to D, with isDirty false.
C19_RoundTrip ==
  [][FreshLoadCompletes
       => /\ initialized' /\ ~dirty'
          /\ (~prior.dirty /\ IsJSON(prior.doc)) => data' = prior.doc]_vars

\* the new instance has loaded the nested document the first one was given
\* and saved
C19_Witness ==
  /\ prior # NoPrior
  /\ ~prior.dirty
  /\ prior.doc = DocAB2
  /\ initialized /\ ~dirty
  /\ data = DocAB2

\* without the restriction to serializable documents the round trip fails
C19_AnyDocument ==
  [][FreshLoadCompletes => (~prior.dirty => data' = prior.doc)]_vars


(***************************************************************************)
(* Properties of the dirty flag                                            *)
(***************************************************************************)
\* a call of update, setPath or _setData that returns
SyncWriteReturns ==
  /\ \/ \E u \in Updaters : update(u)
     \/ \E keys \in Paths, v \in PathValues : setPath(keys, v)
     \/ _setData(defaultFactory)
  /\ Returned

\* C20: isDirty is false after a successful load; every update, setPath and
\* _setData that returns leaves isDirty true, also when the document is the
\* same as before; isDirty goes back to false only when a load, reload, save,
\* updateAndSave or setPathAndSave completes successfully.
C20_DirtyTracking ==
  [][/\ (\E c \in Calls : call[c].kind = "load" /\ Completes(c)) => ~dirty'
     /\ SyncWriteReturns => dirty'
     /\ (dirty /\ ~dirty')
          => \E c \in Calls :
               /\ Completes(c)
               /\ call[c].kind \in {"load", "reload", "save", "updateAndSave"}]_vars

\* nothing is in flight, the document is what the file holds, and isDirty is
\* true: the last update did not change the document
C20_Witness ==
  /\ initialized
  /\ NoneInFlight
  /\ dirty
  /\ disk = Stringify(DocA1)
  /\ data = DocA1
  /\ ncalls = 1


(***************************************************************************)
(* Properties of the partial-object update                                 *)
(***************************************************************************)
\* new is old with the top-level properties of p put over it
MergedOneLevel(old, p, new) ==
  /\ DOMAIN new.f = (DOMAIN old.f) \cup (DOMAIN p.f)
  /\ \A k \in DOMAIN p.f : new.f[k] = p.f[k]
  /\ \A k \in (DOMAIN old.f) \ (DOMAIN p.f) : new.f[k] = old.f[k]

\* C21: update(partial) and updateAndSave(partial) merge one level deep:
\* afterwards each top-level key of the partial holds exactly the partial's
\* value (a nested container is replaced, not merged) and every other
\* top-level key keeps its previous value.
C21_ShallowMerge ==
  [][/\ \A u \in TripUpdaters :
          (~u.fn /\ update(u) /\ Returned) => MergedOneLevel(data, u.partial, data')
     /\ \A c \in Calls :
          (call[c].kind = "updateAndSave" /\ ~call[c].upd.fn /\ Completes(c))
            => MergedOneLevel(call[c].pre, call[c].upd.partial, data')]_vars

\* an updateAndSave with a partial whose key a holds a container is writing;
\* the container the document had at a is gone
C21_Witness ==
  \E c \in Calls :
    /\ call[c].kind = "updateAndSave"
    /\ call[c].pc \in WritePcs
    /\ call[c].pre = DocAB2
    /\ call[c].upd = Partial(DocAC1)
    /\ data = DocAC1


(***************************************************************************)
(* The path accessor on a loaded store: SpecPath takes setPath,            *)
(* setPathAndSave, getPath and hasPath with well-formed and malformed key  *)
(* sequences, one call after the other                                     *)
(***************************************************************************)
DocANull == Obj([k \in {"a"} |-> Null])

\* the documents the store was loaded with
PathDocs == {EmptyObj, DocA1, DocANull}

\* the arguments <<keys, value>> the callers pass to setPath and setPathAndSave
PathCalls ==
  { <<<<StrKey("a"), StrKey("b")>>, Num(1)>>,
    <<<<StrKey("c"), StrKey("d"), NumKey("0")>>, Num(2)>>,
    <<<<StrKey("c"), StrKey("d")>>, EmptyArr>>,
    <<<<StrKey("c"), StrKey("d"), NumKey("0"), NumKey("0")>>, Num(2)>>,
    <<<<StrKey("__proto__")>>, Num(2)>>,
    <<<<>>, Num(2)>> }

\* the key sequences the callers pass to getPath and hasPath
ReadPaths == { p[1] : p \in PathCalls } \cup { <<StrKey("a"), StrKey("c")>> }

InitPath ==
  /\ \E d \in PathDocs :
       /\ data = d
       /\ disk = Stringify(d)
  /\ alias = NoAlias
  /\ dirty = FALSE
  /\ initialized = TRUE
  /\ queue = 1
  /\ resolved = {0, 1}
  /\ ncalls = 1
  /\ call = [c \in Calls |-> IF c = 1 THEN Settle(IdleCall, "done") ELSE IdleCall]
  /\ dirOk = TRUE
  /\ tmp = [c \in Calls |-> NoTmp]
  /\ started = <<1>>
  /\ thrown = "none"
  /\ prior = NoPrior
  /\ logger = NoLogger
  /\ logcalls = NoLogCalls
  /\ obj = EmptyObj

NextPath ==
  \/ \E p \in PathCalls : NoneInFlight /\ setPath(p[1], p[2])
  \/ \E p \in PathCalls : NoneInFlight /\ setPathAndSave(p[1], p[2])
  \/ \E c \in Calls : BeginUpdateAndSave(c)
  \/ \E c \in Calls, ok \in BOOLEAN : WOpen(c, ok)
  \/ \E c \in Calls, ok \in BOOLEAN : WWrite(c, ok)
  \/ \E c \in Calls, ok \in BOOLEAN : WSync(c, ok)
  \/ \E c \in Calls, ok \in BOOLEAN : WClose(c, ok)
  \/ \E c \in Calls, ok \in BOOLEAN : WRename(c, ok)
  \/ \E c \in Calls, ok \in BOOLEAN : WUnlink(c, ok)
  \/ \E keys \in ReadPaths : NoneInFlight /\ getPath(keys)
  \/ \E keys \in ReadPaths : NoneInFlight /\ hasPath(keys)

SpecPath == InitPath /\ [][NextPath]_vars


(***************************************************************************)
(* Properties of the path accessor                                         *)
(***************************************************************************)
\* a call of one of the four path operations with the key sequence keys
PathCall(keys, v) ==
  setPath(keys, v) \/ setPathAndSave(keys, v) \/ getPath(keys) \/ hasPath(keys)

\* the call of this step failed with a validation error and changed nothing
ValidationRejected ==
  /\ thrown' \in {"ValidationFailure", "EmptyPath"}
  /\ UNCHANGED <<data, dirty, disk>>

HasKey(keys, Bad(_)) == \E i \in 1..Len(keys) : Bad(keys[i])

NotNonEmptyStringOrFinite(k) ==
  ~((k.ty = "string" /\ k.name # "") \/ (k.ty = "number" /\ IsFinite(k)))

NotStringOrFinite(k) == ~(k.ty = "string" \/ (k.ty = "number" /\ IsFinite(k)))

\* the key sequences with a key that is not a non-empty string or a finite number
NotNonEmptyPaths == {q \in SyncPaths : HasKey(q, NotNonEmptyStringOrFinite)}

\* the key sequences with a key that is not a string or a finite number
MalformedPaths == {q \in SyncPaths : HasKey(q, NotStringOrFinite)}

C23_GetPathFollowsKeys ==
  [][\A keys \in AliasPaths :
       /\ getPath(keys)
            => /\ thrown' = "none"
               /\ Val(alias'.heap, alias'.held) = getPathFrom(data, keys)
               /\ UNCHANGED <<data, dirty>>
       /\ hasPath(keys)
            => /\ thrown' = "none"
               /\ alias'.held = Bool(getPathFrom(data, keys) # Undef)
               /\ UNCHANGED <<data, dirty>>]_vars

\* getPath('c', 'd') returned undefined on a document whose c is a number
C23_Witness ==
  /\ alias.src = "getPath"
  /\ alias.op = "read"
  /\ alias.held = Undef
  /\ Prop(data, "c") = Num(1)
  /\ Prop(data, "a") = Obj([k \in {"b"} |-> Num(2)])


\* setPath(keys, v) returned in this step
SetPathReturns(keys, v) == setPath(keys, v) /\ thrown' = "none"

\* after the step keys lead to v, and each container that was missing along
\* keys is a mapping that holds the next key only
RoundTrip(keys, v) ==
  /\ getPathFrom(data', keys) = v
  /\ getPathFrom(data', keys) # Undef
  /\ \A i \in 1..(Len(keys) - 1) :
       IsNullish(getPathFrom(data, SubSeq(keys, 1, i)))
         => LET made == getPathFrom(data', SubSeq(keys, 1, i))
            IN made.t = "obj" /\ DOMAIN made.f = {keys[i + 1].name}

\* C24: after setPath(keys, v) succeeds with v not undefined, getPath(...keys)
\* returns v and hasPath(...keys) is true, and every container that was
\* missing along keys has been created as a mapping that holds only the next
\* key of the path.
C24_SetThenGet ==
  [][\A p \in PathCalls :
       (p[2] # Undef /\ SetPathReturns(p[1], p[2])) => RoundTrip(p[1], p[2])]_vars

\* the same for the keys that are not the inherited accessor __proto__
C24_SetThenGetOwnKeys ==
  [][\A p \in PathCalls :
       (/\ p[2] # Undef
        /\ \A i \in 1..Len(p[1]) : p[1][i].name # "__proto__"
        /\ SetPathReturns(p[1], p[2])) => RoundTrip(p[1], p[2])]_vars

\* setPath(['a','b'], 1) made the mapping {b: 1} where a was missing
C24_OwnKeysWitness ==
  /\ dirty
  /\ Prop(data, "a") = Obj([k \in {"b"} |-> Num(1)])
  /\ thrown = "none"


\* the walk of keys in document d reaches key i, and that key addresses a
\* container that is missing: no earlier key of the path leads to a value
\* that is neither missing nor a container
MissingAt(d, keys, i) ==
  /\ IsNullish(getPathFrom(d, SubSeq(keys, 1, i)))
  /\ \A j \in 1..(i - 1) :
       LET at == getPathFrom(d, SubSeq(keys, 1, j)) IN IsNullish(at) \/ IsObject(at)

\* key i of keys addresses a missing container and the next key is a number
NeedsArrayAt(d, keys, i) == MissingAt(d, keys, i) /\ keys[i + 1].ty = "number"

\* the body of a setPathAndSave(keys, _) runs in this step
SetPathAndSaveRuns(c, keys) ==
  /\ call[c].kind = "updateAndSave"
  /\ call[c].upd.fn
  /\ call[c].upd.keys = keys
  /\ BeginUpdateAndSave(c)

\* setPath and setPathAndSave with keys fail with ArrayAutoCreateRefused in a
\* step from a document in which some key before the last needs an array
RefusedWhereArrayNeeded ==
  \A p \in PathCalls :
    (\E i \in 1..(Len(p[1]) - 1) : NeedsArrayAt(data, p[1], i))
      => /\ setPath(p[1], p[2]) => thrown' = "ArrayAutoCreateRefused"
         /\ \A c \in Calls :
              SetPathAndSaveRuns(c, p[1]) => thrown' = "ArrayAutoCreateRefused" /\ Fails(c)

\* C25 as stated: setPath/setPathAndSave(keys, v) fails with
\* ArrayAutoCreateRefused whenever some key before the last addresses a
\* missing container and the key after it is a number; once that container
\* has been set to an empty array with setPath(prefix, []), the same call
\* succeeds.
C25_SucceedsOnceArraySet ==
  [][/\ RefusedWhereArrayNeeded
     /\ \A p \in PathCalls : \A i \in 1..(Len(p[1]) - 1) :
          (/\ NeedsArrayAt(data, p[1], i)
           /\ SetPathReturns(SubSeq(p[1], 1, i), EmptyArr))
            => setAtPath(data', p[1], p[2]).ok]_vars

\* C25 amended: the refusal as stated; once that container has been set to
\* an empty array with setPath(prefix, []), the same call succeeds if no later
\* key of the path is a number, and is refused again, at the next missing
\* container, if one is.
C25_RefusedUntilArraysSet ==
  [][/\ RefusedWhereArrayNeeded
     /\ \A p \in PathCalls : \A i \in 1..(Len(p[1]) - 1) :
          (/\ NeedsArrayAt(data, p[1], i)
           /\ SetPathReturns(SubSeq(p[1], 1, i), EmptyArr))
            => LET r == setAtPath(data', p[1], p[2])
               IN IF \E k \in (i + 2)..Len(p[1]) : p[1][k].ty = "number"
                  THEN ~r.ok /\ r.err = "ArrayAutoCreateRefused"
                  ELSE r.ok]_vars

\* setPath(['c','d',0], 2) succeeded: d, which no call could create for it,
\* is the array that setPath(['c','d'], []) made
C25_Witness ==
  /\ getPathFrom(data, <<StrKey("c"), StrKey("d")>>).t = "arr"
  /\ getPathFrom(data, <<StrKey("c"), StrKey("d"), NumKey("0")>>) = Num(2)


\* the errors of the path walk
WalkErrors == {"TraversalFailure", "ArrayAutoCreateRefused"}

\* C26: when setPath or setPathAndSave fails inside the path walk (the path
\* passes through an existing value that is not a container, or an array
\* would have to be created), the document, isDirty and the file are
\* unchanged; no container the walk created before it failed remains.
C26_FailedWalkChangesNothing ==
  [][\A p \in PathCalls :
       /\ (setPath(p[1], p[2]) /\ thrown' \in WalkErrors)
            => UNCHANGED <<data, dirty, disk>>
       /\ \A c \in Calls :
            (SetPathAndSaveRuns(c, p[1]) /\ thrown' \in WalkErrors)
              => Fails(c) /\ UNCHANGED <<data, dirty, disk>>]_vars

\* setPath(['c','d',0], 2) was refused at d after its walk had created c: the
\* document has no c
C26_Witness ==
  /\ thrown = "ArrayAutoCreateRefused"
  /\ Prop(data, "c") = Undef
  /\ NoneInFlight


(***************************************************************************)
(* Properties of the initialization flag                                   *)
(***************************************************************************)
\* C27: isInitialized is false from construction until the first load()
\* succeeds and true in every state after that: it becomes true only in the
\* step in which a load completes, and no operation, a later failed load or
\* reload included, makes it false again.
C27_InitializedOnceLoaded ==
  /\ ~initialized
  /\ [][/\ initialized => initialized'
        /\ (~initialized /\ initialized')
             => \E c \in Calls : call[c].kind = "load" /\ Completes(c)]_vars

\* a load called on the loaded store failed on its directory: the store is
\* still initialized
C27_Witness ==
  /\ initialized
  /\ thrown = "DirectoryMissing"


(***************************************************************************)
(* DependencyResolver over a loaded store: SpecResolver takes record,      *)
(* require, optional and has of resolvers that share one store, one call   *)
(* after the other                                                         *)
(***************************************************************************)
Str(s) == [t |-> "str", s |-> s]

\* the outcome of a call that throws e
Thrown(e) == [t |-> "throw", e |-> e]

\* strings that value.trim() makes empty
Blank == {"", " "}

DEFAULT_SCOPED_TYPES == {"inventories", "credentials"}

\* the resolvers: new DependencyResolver(idMap, environment, category)
Resolvers ==
  { [environment |-> "prod", category |-> "standard"],
    [environment |-> "staging", category |-> "standard"],
    [environment |-> "staging", category |-> "kyndryl"] }

\* mutant of validateNonEmptyString: the value is not trimmed
validateNonEmptyStringUntrimmed(value) == value.t = "str" /\ value.s # ""

\* validateNonEmptyString(value, name) returns
validateNonEmptyString(value) == value.t = "str" /\ value.s \notin Blank

isScoped(type) == type \in DEFAULT_SCOPED_TYPES

\* [type, oldId, this.#category, this.#environment]
ScopedKeys(r, type, oldId) ==
  <<StrKey(type), StrKey(oldId), StrKey(r.category), StrKey(r.environment)>>

\* [type, oldId]
SimpleKeys(type, oldId) == <<StrKey(type), StrKey(oldId)>>

\* mutant of resolve: the simple path is tried for types that are not scoped
\* only
resolveWithoutLegacy(d, r, type, oldId) ==
  LET scopedValue == getPathFrom(d, ScopedKeys(r, type, oldId))
      simpleValue == getPathFrom(d, SimpleKeys(type, oldId))
  IN IF isScoped(type)
     THEN IF scopedValue.t = "str" THEN scopedValue ELSE Null
     ELSE IF simpleValue.t = "str" THEN simpleValue ELSE Null

\* #resolve(type, oldId) of resolver r when the store holds document d
resolve(d, r, type, oldId) ==
  LET scopedValue == getPathFrom(d, ScopedKeys(r, type, oldId))
      simpleValue == getPathFrom(d, SimpleKeys(type, oldId))
  IN IF isScoped(type) /\ scopedValue.t = "str" THEN scopedValue
     ELSE IF simpleValue.t = "str" THEN simpleValue
     ELSE Null

\* what require(type, oldId) returns or throws
require(d, r, type, oldId) ==
  IF ~(validateNonEmptyString(type) /\ validateNonEmptyString(oldId))
  THEN Thrown("TypeError")
  ELSE LET newId == resolve(d, r, type.s, oldId.s)
       IN IF newId = Null THEN Thrown("DependencyNotFound") ELSE newId

\* what optional(type, oldId) returns or throws
optional(d, r, type, oldId) ==
  IF ~validateNonEmptyString(type) THEN Thrown("TypeError")
  ELSE IF IsNullish(oldId) THEN Null
  ELSE IF oldId.t # "str" \/ oldId.s \in Blank THEN Null
  ELSE resolve(d, r, type.s, oldId.s)

\* mutant of has: the result of #resolve is compared with undefined
hasNotUndefined(d, r, type, oldId) ==
  IF ~(validateNonEmptyString(type) /\ validateNonEmptyString(oldId))
  THEN Thrown("TypeError")
  ELSE Bool(resolve(d, r, type.s, oldId.s) # Undef)

\* what has(type, oldId) returns or throws
has(d, r, type, oldId) ==
  IF ~(validateNonEmptyString(type) /\ validateNonEmptyString(oldId))
  THEN Thrown("TypeError")
  ELSE Bool(resolve(d, r, type.s, oldId.s) # Null)

\* mutant of RecordKeys: every type is recorded under the simple path
RecordKeysSimple(r, type, oldId) == SimpleKeys(type, oldId)

\* the keys record writes to
RecordKeys(r, type, oldId) ==
  IF isScoped(type) THEN ScopedKeys(r, type, oldId) ELSE SimpleKeys(type, oldId)

\* mutant of record: a legacy entry of a scoped type is overwritten in place
recordOverLegacy(r, type, oldId, newId) ==
  IF ~(/\ validateNonEmptyString(type)
       /\ validateNonEmptyString(oldId)
       /\ validateNonEmptyString(newId))
  THEN Rejects("TypeError")
  ELSE setPathAndSave(IF getPathFrom(data, SimpleKeys(type.s, oldId.s)).t = "str"
                      THEN SimpleKeys(type.s, oldId.s)
                      ELSE RecordKeys(r, type.s, oldId.s), newId)

\* record(type, oldId, newId) up to the first await inside setPathAndSave
record(r, type, oldId, newId) ==
  IF ~(/\ validateNonEmptyString(type)
       /\ validateNonEmptyString(oldId)
       /\ validateNonEmptyString(newId))
  THEN Rejects("TypeError")
  ELSE setPathAndSave(RecordKeys(r, type.s, oldId.s), newId)

\* a call of require, optional or has: it returns or throws
Lookup(r, type, oldId) ==
  \E res \in {require(data, r, type, oldId), optional(data, r, type, oldId),
              has(data, r, type, oldId)} :
    Rejects(IF res.t = "throw" THEN res.e ELSE "none")

ScopedEntry(e, c, v) == Obj([k \in {c} |-> Obj([j \in {e} |-> v])])

\* the documents of the store: empty; with current entries, one of them under
\* a blank id; with a legacy
\* entry (a plain string under a scoped type) and an entry that is a number
ResolverDocs ==
  { EmptyObj,
    Obj([t \in {"inventories", "projects"} |->
           IF t = "inventories"
           THEN Obj([i \in {"OLD-1", "OLD-2"} |-> ScopedEntry("prod", "standard", Str("E"))])
           ELSE Obj([i \in {"OLD-1", " "} |-> Str("E")])]),
    Obj([t \in {"inventories", "projects"} |->
           IF t = "inventories"
           THEN Obj([i \in {"OLD-1"} |-> Str("LEGACY")])
           ELSE Obj([i \in {"OLD-1"} |-> Num(7)])]) }

\* the arguments <<type, oldId, newId>> the callers pass to record
RecordCalls ==
  { <<Str("inventories"), Str("OLD-1"), Str("N")>>,
    <<Str("projects"), Str("OLD-1"), Str("N")>>,
    <<Str("projects"), Str("__proto__"), Str("N")>>,
    <<Str("projects"), Str("OLD-1"), Str(" ")>>,
    <<Str("projects"), Null, Str("N")>>,
    <<Undef, Str("OLD-1"), Str("N")>> }

\* the arguments <<type, oldId>> the callers pass to require, optional and has
LookupCalls ==
  { <<Str("inventories"), Str("OLD-1")>>,
    <<Str("inventories"), Str("OLD-2")>>,
    <<Str("projects"), Str("OLD-1")>>,
    <<Str("projects"), Str("__proto__")>>,
    <<Str("projects"), Null>>,
    <<Str("projects"), Str(" ")>>,
    <<Str(""), Str("OLD-1")>> }

InitResolver ==
  /\ \E d \in ResolverDocs :
       /\ data = d
       /\ disk = Stringify(d)
  /\ alias = NoAlias
  /\ dirty = FALSE
  /\ initialized = TRUE
  /\ queue = 1
  /\ resolved = {0, 1}
  /\ ncalls = 1
  /\ call = [c \in Calls |-> IF c = 1 THEN Settle(IdleCall, "done") ELSE IdleCall]
  /\ dirOk = TRUE
  /\ tmp = [c \in Calls |-> NoTmp]
  /\ started = <<1>>
  /\ thrown = "none"
  /\ prior = NoPrior
  /\ logger = NoLogger
  /\ logcalls = NoLogCalls
  /\ obj = EmptyObj

NextResolver ==
  \/ \E r \in Resolvers, a \in RecordCalls : NoneInFlight /\ record(r, a[1], a[2], a[3])
  \/ \E c \in Calls : BeginUpdateAndSave(c)
  \/ \E c \in Calls, ok \in BOOLEAN : WOpen(c, ok)
  \/ \E c \in Calls, ok \in BOOLEAN : WWrite(c, ok)
  \/ \E c \in Calls, ok \in BOOLEAN : WSync(c, ok)
  \/ \E c \in Calls, ok \in BOOLEAN : WClose(c, ok)
  \/ \E c \in Calls, ok \in BOOLEAN : WRename(c, ok)
  \/ \E c \in Calls, ok \in BOOLEAN : WUnlink(c, ok)
  \/ \E r \in Resolvers, a \in LookupCalls : NoneInFlight /\ Lookup(r, a[1], a[2])

SpecResolver == InitResolver /\ [][NextResolver]_vars


(***************************************************************************)
(* Properties of the resolver                                              *)
(***************************************************************************)
\* the setPathAndSave of a record completes in this step
RecordCompletes(c) ==
  call[c].kind = "updateAndSave" /\ call[c].upd.fn /\ Completes(c)

\* resolver r has the category and environment that the keys were recorded
\* under (any resolver, for the two keys of a type that is not scoped)
SameScope(r, keys) ==
  Len(keys) = 4 => (r.category = keys[3].name /\ r.environment = keys[4].name)

\* after the step require and optional return newId and has returns true
ResolvesTo(r, keys, newId) ==
  LET type == Str(keys[1].name)
      oldId == Str(keys[2].name)
  IN /\ require(data', r, type, oldId) = newId
     /\ optional(data', r, type, oldId) = newId
     /\ has(data', r, type, oldId) = Bool(TRUE)

\* a record that is not rejected makes one call of setPathAndSave; the file
\* changes in no step but the one that completes a record, and that step
\* renames the record's temporary file, which holds the document
OneSavePerRecord ==
  /\ \A r \in Resolvers, a \in RecordCalls :
       (record(r, a[1], a[2], a[3]) /\ thrown' = "none")
         => ncalls' = ncalls + 1 /\ call'[ncalls'].kind = "updateAndSave"
  /\ disk' # disk => \E c \in Calls : RecordCompletes(c)
  /\ \A c \in Calls :
       RecordCompletes(c)
         => tmp[c] # NoTmp /\ tmp'[c] = NoTmp /\ disk' = Stringify(data')

\* C28: after record(type, oldId, newId) succeeds, require and optional on a
\* resolver with the same environment and category return newId and has
\* returns true, also when a mapping existed before (it is overwritten); each
\* successful record performs exactly one save of the store.
C28_RecordThenResolve ==
  [][/\ \A c \in Calls :
          RecordCompletes(c)
            => \A r \in Resolvers :
                 SameScope(r, call[c].upd.keys)
                   => ResolvesTo(r, call[c].upd.keys, call[c].upd.value)
     /\ OneSavePerRecord]_vars

\* the same for the old ids that are not the inherited accessor __proto__
C28_RecordThenResolveOwnIds ==
  [][/\ \A c \in Calls :
          (RecordCompletes(c) /\ call[c].upd.keys[2].name # "__proto__")
            => \A r \in Resolvers :
                 SameScope(r, call[c].upd.keys)
                   => ResolvesTo(r, call[c].upd.keys, call[c].upd.value)
     /\ OneSavePerRecord]_vars

\* the staging/kyndryl resolver recorded inventories OLD-1 next to the entry
\* of standard/prod, and projects OLD-1 was overwritten
C28_OwnIdsWitness ==
  /\ NoneInFlight
  /\ getPathFrom(data, SimpleKeys("projects", "OLD-1")) = Str("N")
  /\ getPathFrom(data, SimpleKeys("inventories", "OLD-1")) =
       Obj([c \in {"standard", "kyndryl"} |->
              IF c = "standard" THEN Obj([e \in {"prod"} |-> Str("E")])
              ELSE Obj([e \in {"staging"} |-> Str("N")])])
  /\ disk = Stringify(data)


\* the types and old ids that are looked up
LookupTypes == {"inventories", "projects"}

LookupIds == {"OLD-1", "OLD-2"}

\* C29: for a scoped type, a mapping recorded under one (category,
\* environment) is not resolved by a resolver with another (category,
\* environment), for which has returns false and require throws; a record
\* under one scope leaves the mappings of the same old id under other scopes
\* and the mappings of other old ids unchanged.
C29_ScopesAreSeparate ==
  [][\A c \in Calls :
       (RecordCompletes(c) /\ isScoped(call[c].upd.keys[1].name))
         => LET keys == call[c].upd.keys
                before == call[c].pre
                Same(r, type, oldId) ==
                  resolve(data', r, type, oldId) = resolve(before, r, type, oldId)
                NotFound(r, type, oldId) ==
                  /\ has(data', r, Str(type), Str(oldId)) = Bool(FALSE)
                  /\ require(data', r, Str(type), Str(oldId)) = Thrown("DependencyNotFound")
            IN /\ \A r1 \in Resolvers, r2 \in Resolvers :
                    (~Same(r1, keys[1].name, keys[2].name) /\ ~Same(r2, keys[1].name, keys[2].name))
                      => r1 = r2
               /\ \A r \in Resolvers, type \in LookupTypes, oldId \in LookupIds :
                    (\/ Len(keys) = 4 /\ ~SameScope(r, keys)
                     \/ type # keys[1].name
                     \/ oldId # keys[2].name)
                      => /\ Same(r, type, oldId)
                         /\ resolve(before, r, type, oldId) = Null => NotFound(r, type, oldId)]_vars

\* inventories OLD-1 was recorded for standard/staging next to standard/prod;
\* the entry of OLD-2 is as it was loaded
C29_Witness ==
  /\ NoneInFlight
  /\ getPathFrom(data, SimpleKeys("inventories", "OLD-1")) =
       Obj([c \in {"standard"} |->
              Obj([e \in {"prod", "staging"} |-> IF e = "prod" THEN Str("E") ELSE Str("N")])])
  /\ getPathFrom(data, SimpleKeys("inventories", "OLD-2")) =
       ScopedEntry("prod", "standard", Str("E"))


\* C30: for a scoped type whose entry at [type, oldId] is a plain string (a
\* legacy mapping), require, optional and has resolve to that string for
\* every environment and category; for any type, a looked-up entry that is not
\* a string is treated as not found: has returns false, optional returns null
\* and require throws.
C30_LegacyAndNonStringEntries ==
  \A r \in Resolvers, type \in LookupTypes, oldId \in LookupIds :
    LET simpleValue == getPathFrom(data, SimpleKeys(type, oldId))
        scopedValue == getPathFrom(data, ScopedKeys(r, type, oldId))
        found == IF isScoped(type) /\ simpleValue.t # "str" THEN scopedValue ELSE simpleValue
    IN /\ (isScoped(type) /\ simpleValue.t = "str")
            => /\ require(data, r, Str(type), Str(oldId)) = simpleValue
               /\ optional(data, r, Str(type), Str(oldId)) = simpleValue
               /\ has(data, r, Str(type), Str(oldId)) = Bool(TRUE)
       /\ found.t # "str"
            => /\ require(data, r, Str(type), Str(oldId)) = Thrown("DependencyNotFound")
               /\ optional(data, r, Str(type), Str(oldId)) = Null
               /\ has(data, r, Str(type), Str(oldId)) = Bool(FALSE)

\* a require threw on the store that holds a legacy entry for inventories
\* OLD-1 and a number for projects OLD-1
C30_Witness ==
  /\ thrown = "DependencyNotFound"
  /\ getPathFrom(data, SimpleKeys("inventories", "OLD-1")) = Str("LEGACY")
  /\ getPathFrom(data, SimpleKeys("projects", "OLD-1")) = Num(7)


\* the lookups whose type and oldId are non-empty strings
NonEmptyLookups ==
  {a \in LookupCalls : a[1].t = "str" /\ a[1].s # "" /\ a[2].t = "str" /\ a[2].s # ""}

\* has, optional and require of resolver r agree on document d
LookupsAgree(d, r, type, oldId) ==
  LET h == has(d, r, type, oldId)
      o == optional(d, r, type, oldId)
      q == require(d, r, type, oldId)
  IN /\ (h = Bool(TRUE)) <=> (o.t = "str")
     /\ (h = Bool(TRUE)) <=> (q.t # "throw")
     /\ (o.t # "throw" /\ o # Null) <=> (o.t = "str")
     /\ h = Bool(TRUE) => o = q

\* C31: for every store content and every non-empty string type and oldId,
\* has is true exactly when optional is not null and exactly when require
\* returns instead of throwing, and optional and require then return the same
\* id; require, optional and has never modify the store.
C31_LookupsAgree ==
  /\ [](\A r \in Resolvers, a \in NonEmptyLookups : LookupsAgree(data, r, a[1], a[2]))
  /\ [][\A r \in Resolvers, a \in LookupCalls :
          Lookup(r, a[1], a[2]) => UNCHANGED <<data, dirty, disk, ncalls, call, tmp>>]_vars

\* a require threw on the store on which the prod/standard resolver has
\* inventories OLD-1 and a record has been written
C31_Witness ==
  /\ thrown = "DependencyNotFound"
  /\ has(data, [environment |-> "prod", category |-> "standard"],
         Str("inventories"), Str("OLD-1")) = Bool(TRUE)
  /\ getPathFrom(data, SimpleKeys("projects", "OLD-1")) = Str("N")
  /\ disk = Stringify(data)


\* argument values that are not non-blank strings
NotNonBlank == {Undef, Null, Num(7), EmptyObj, Str(""), Str(" ")}

\* argument values that are non-blank strings
NonBlank == {Str("projects"), Str("inventories"), Str("OLD-1")}

\* require and has throw TypeError for an invalid type or oldId; optional
\* throws it for an invalid type only and returns null for an invalid oldId
LookupsValidate(d, r) ==
  \A type \in NotNonBlank \cup NonBlank, oldId \in NotNonBlank \cup NonBlank :
    /\ (type \in NotNonBlank \/ oldId \in NotNonBlank)
         => /\ require(d, r, type, oldId) = Thrown("TypeError")
            /\ has(d, r, type, oldId) = Thrown("TypeError")
    /\ (type \in NonBlank /\ oldId \in NonBlank)
         => /\ require(d, r, type, oldId) # Thrown("TypeError")
            /\ has(d, r, type, oldId) # Thrown("TypeError")
    /\ (optional(d, r, type, oldId) = Thrown("TypeError")) <=> (type \in NotNonBlank)
    /\ (type \in NonBlank /\ oldId \in NotNonBlank) => optional(d, r, type, oldId) = Null

\* C32: require and has throw TypeError when type or oldId is not a non-blank
\* string; record rejects with TypeError when type, oldId or newId is not a
\* non-blank string and then writes nothing to the store; optional throws
\* TypeError only for an invalid type and returns null, whatever the store
\* holds, for a null, undefined, empty, blank or non-string oldId.
C32_ArgumentsValidated ==
  /\ [](\A r \in Resolvers : LookupsValidate(data, r))
  /\ [][\A r \in Resolvers, a \in RecordCalls :
          (record(r, a[1], a[2], a[3])
             /\ \E i \in 1..3 : a[i] \in NotNonBlank)
          => /\ thrown' = "TypeError"
             /\ UNCHANGED <<data, dirty, disk, queue, ncalls, call, tmp>>]_vars

\* a call was rejected with TypeError on the store that holds an entry under
\* the blank id
C32_Witness ==
  /\ thrown = "TypeError"
  /\ getPathFrom(data, SimpleKeys("projects", " ")) = Str("E")


\* the setPathAndSave of a record of a scoped type starts its body on a
\* document whose entry at [type, oldId] is a string
RecordRunsOverLegacy(c) ==
  /\ call[c].kind = "updateAndSave"
  /\ call[c].upd.fn
  /\ BeginUpdateAndSave(c)
  /\ Len(call[c].upd.keys) >= 2
  /\ isScoped(call[c].upd.keys[1].name)
  /\ getPathFrom(data, SubSeq(call[c].upd.keys, 1, 2)).t = "str"

\* C39: record(type, oldId, newId) for a scoped type whose store entry at
\* [type, oldId] is a legacy plain string fails in the path walk and leaves
\* the document, the legacy mapping and the file unchanged; every resolver,
\* whatever its scope, still resolves the legacy value.
C39_LegacyEntryBlocksRecord ==
  [][\A c \in Calls :
       RecordRunsOverLegacy(c)
       => /\ Fails(c)
          /\ thrown' = "TraversalFailure"
          /\ UNCHANGED <<data, dirty, disk, tmp>>
          /\ \A r \in Resolvers :
               require(data', r, Str(call[c].upd.keys[1].name), Str(call[c].upd.keys[2].name))
                 = getPathFrom(data, SubSeq(call[c].upd.keys, 1, 2))]_vars

\* the record of inventories OLD-1 failed in the walk and the legacy entry is
\* still what the file holds
C39_Witness ==
  /\ thrown = "TraversalFailure"
  /\ \E c \in Calls : call[c].pc = "failed"
  /\ getPathFrom(data, SimpleKeys("inventories", "OLD-1")) = Str("LEGACY")
  /\ disk = Stringify(data)


(***************************************************************************)
(* MigrationLogger                                                         *)
(***************************************************************************)
\* calls of the logger made in one run
MaxLog == 5

\* an Error object with the given message
Error(message) == [t |-> "Error", message |-> message]

\* new Date().toISOString(): the clock is not followed
Timestamp == Str("now")

\* a call of the logger changes nothing of a store or of a transformed object
LoggerOnly ==
  UNCHANGED <<data, dirty, initialized, queue, resolved, ncalls, call, disk, dirOk, tmp,
              started, thrown, alias, prior, obj>>

LogCalls == logcalls.migrated + logcalls.skipped + logcalls.failed

\* migrated(type, oldId, newId, details)
migrated(type, oldId, newId, details) ==
  /\ LogCalls < MaxLog
  /\ LET entry == Obj([k \in {"type", "oldId", "newId", "timestamp"}
                               \cup (IF details # Undef THEN {"details"} ELSE {}) |->
                         CASE k = "type" -> type
                           [] k = "oldId" -> oldId
                           [] k = "newId" -> newId
                           [] k = "timestamp" -> Timestamp
                           [] k = "details" -> details])
     IN logger' = [logger EXCEPT !.migrated = Append(@, entry)]
  /\ logcalls' = [logcalls EXCEPT !.migrated = @ + 1]
  /\ LoggerOnly

\* skipped(type, oldId, reason)
skipped(type, oldId, reason) ==
  /\ LogCalls < MaxLog
  /\ LET entry == Obj([k \in {"type", "oldId", "reason", "timestamp"} |->
                         CASE k = "type" -> type
                           [] k = "oldId" -> oldId
                           [] k = "reason" -> reason
                           [] k = "timestamp" -> Timestamp])
     IN logger' = [logger EXCEPT !.skipped = Append(@, entry)]
  /\ logcalls' = [logcalls EXCEPT !.skipped = @ + 1]
  /\ LoggerOnly

\* error instanceof Error ? error.message : String(error), for errors and strings
errorMessage(error) == IF error.t = "Error" THEN Str(error.message) ELSE error

\* failed(type, oldId, error)
failed(type, oldId, error) ==
  /\ LogCalls < MaxLog
  /\ LET entry == Obj([k \in {"type", "oldId", "error", "timestamp"} |->
                         CASE k = "type" -> type
                           [] k = "oldId" -> oldId
                           [] k = "error" -> errorMessage(error)
                           [] k = "timestamp" -> Timestamp])
     IN logger' = [logger EXCEPT !.failed = Append(@, entry)]
  /\ logcalls' = [logcalls EXCEPT !.failed = @ + 1]
  /\ LoggerOnly

\* mutant of getCounts: the total leaves out the failures
getCountsWithoutFailed(l) ==
  [migrated |-> Len(l.migrated), skipped |-> Len(l.skipped), failed |-> Len(l.failed),
   total |-> Len(l.migrated) + Len(l.skipped)]

\* getCounts()
getCounts(l) ==
  [migrated |-> Len(l.migrated), skipped |-> Len(l.skipped), failed |-> Len(l.failed),
   total |-> Len(l.migrated) + Len(l.skipped) + Len(l.failed)]

\* hasFailures()
hasFailures(l) == Len(l.failed) > 0

\* the details the callers pass to migrated
LogDetails == {Undef, Obj([k \in {"name"} |-> Str("P")])}

\* the errors the callers pass to failed
LogErrors == {Error("boom"), Str("error")}

\* a new logger; no store is in use
InitLogger ==
  /\ Init
  /\ dirOk
  /\ disk = NoFile

NextLogger ==
  \/ \E details \in LogDetails : migrated(Str("projects"), Str("OLD-1"), Str("NEW-1"), details)
  \/ skipped(Str("inventories"), Str("SKP-1"), Str("duplicate"))
  \/ \E error \in LogErrors : failed(Str("credentials"), Str("FAIL-1"), error)

SpecLogger == InitLogger /\ [][NextLogger]_vars

\* C33: after any sequence of migrated, skipped and failed calls, getCounts
\* reports for each category the number of calls of that kind and a total
\* equal to their sum, no count ever decreases, and hasFailures() is true
\* exactly when at least one failed() call has been made.
C33_CountsFollowCalls ==
  /\ [](/\ getCounts(logger).migrated = logcalls.migrated
        /\ getCounts(logger).skipped = logcalls.skipped
        /\ getCounts(logger).failed = logcalls.failed
        /\ getCounts(logger).total = logcalls.migrated + logcalls.skipped + logcalls.failed
        /\ hasFailures(logger) <=> logcalls.failed > 0)
  /\ [][\A k \in {"migrated", "skipped", "failed", "total"} :
          getCounts(logger')[k] >= getCounts(logger)[k]]_vars

\* two items were migrated, one skipped and two failed
C33_Witness ==
  /\ logcalls = [migrated |-> 2, skipped |-> 1, failed |-> 2]
  /\ getCounts(logger).total = 5
  /\ hasFailures(logger)


(***************************************************************************)
(* Transform utilities                                                     *)
(***************************************************************************)
\* delete o[name]
Delete(o, name) == [t |-> o.t, f |-> [k \in (DOMAIN o.f) \ {name} |-> o.f[k]]]

\* Object.hasOwn(o, name)
hasOwn(o, name) == name \in DOMAIN o.f

\* obj after renameKey(obj, oldKey, newKey) ran on o
renameKeyIn(o, oldKey, newKey) ==
  IF oldKey = newKey \/ ~hasOwn(o, oldKey) THEN o
  ELSE Delete(Put(o, newKey, Prop(o, oldKey)), oldKey)

\* renameKey(obj, oldKey, newKey)
renameKey(oldKey, newKey) ==
  /\ obj' = renameKeyIn(obj, oldKey, newKey)
  /\ UNCHANGED <<data, dirty, initialized, queue, resolved, ncalls, call, disk, dirOk, tmp,
                 started, thrown, alias, prior, logger, logcalls>>

\* the keys of the objects, and the keys the callers rename
ObjKeys == {"a", "b", "c", "__proto__"}

RenameKeys == {"a", "b", "__proto__"}

\* the objects handed to renameKey: plain objects, as JSON.parse makes them,
\* whose values are numbers
RenameObjs ==
  UNION {{Obj(f) : f \in [S -> {Num(1), Num(2), Num(3)}]} : S \in SUBSET ObjKeys}

\* an object is about to be transformed; no store is in use
InitRename ==
  /\ data = defaultFactory
  /\ dirty = FALSE
  /\ initialized = FALSE
  /\ queue = 0
  /\ resolved = {0}
  /\ ncalls = 0
  /\ call = [c \in Calls |-> IdleCall]
  /\ dirOk = TRUE
  /\ disk = NoFile
  /\ tmp = [c \in Calls |-> NoTmp]
  /\ started = <<>>
  /\ thrown = "none"
  /\ alias = NoAlias
  /\ prior = NoPrior
  /\ logger = NoLogger
  /\ logcalls = NoLogCalls
  /\ obj \in RenameObjs

NextRename == \E oldKey \in RenameKeys, newKey \in RenameKeys : renameKey(oldKey, newKey)

SpecRename == InitRename /\ [][NextRename]_vars

\* what renameKey(obj, oldKey, newKey) is to have done in this step
RenamedAsDocumented(oldKey, newKey) ==
  IF hasOwn(obj, oldKey) /\ oldKey # newKey
  THEN /\ Prop(obj', newKey) = obj.f[oldKey]
       /\ ~hasOwn(obj', oldKey)
       /\ \A k \in ObjKeys \ {oldKey, newKey} :
            /\ hasOwn(obj', k) <=> hasOwn(obj, k)
            /\ hasOwn(obj, k) => obj'.f[k] = obj.f[k]
  ELSE obj' = obj

\* C34: renameKey(obj, oldKey, newKey): if oldKey is an own key and differs
\* from newKey, afterwards obj[newKey] holds the former value of obj[oldKey],
\* oldKey is absent and every other key is unchanged; if oldKey is absent or
\* equals newKey, obj is unchanged.
C34_RenameKey ==
  [][\A oldKey \in RenameKeys, newKey \in RenameKeys :
       renameKey(oldKey, newKey) => RenamedAsDocumented(oldKey, newKey)]_vars

\* the same, where the new key is not a __proto__ that obj lacks
C34_RenameKeyOwnKeys ==
  [][\A oldKey \in RenameKeys, newKey \in RenameKeys :
       (renameKey(oldKey, newKey) /\ (newKey = "__proto__" => hasOwn(obj, newKey)))
       => RenamedAsDocumented(oldKey, newKey)]_vars


(***************************************************************************)
(* Calls made while the first load is pending                              *)
(***************************************************************************)
\* the load path and the queued operations, whether they are rejected when
\* called or reach the queue
NextPending ==
  \/ load
  \/ reload
  \/ save
  \/ \E u \in Updaters : updateAndSave(u)
  \/ \E keys \in SavePaths, v \in PathValues : setPathAndSave(keys, v)
  \/ \E c \in Calls : BeginLoad(c)
  \/ \E c \in Calls : BeginReload(c)
  \/ \E c \in Calls : BeginSave(c)
  \/ \E c \in Calls : BeginUpdateAndSave(c)
  \/ \E c \in Calls, ok \in BOOLEAN : LoadAccess(c, ok)
  \/ \E c \in Calls, ok \in BOOLEAN : LoadRead(c, ok)
  \/ \E c \in Calls, ok \in BOOLEAN : ReloadRead(c, ok)
  \/ \E c \in Calls, ok \in BOOLEAN : WOpen(c, ok)
  \/ \E c \in Calls, ok \in BOOLEAN : WWrite(c, ok)
  \/ \E c \in Calls, ok \in BOOLEAN : WSync(c, ok)
  \/ \E c \in Calls, ok \in BOOLEAN : WClose(c, ok)
  \/ \E c \in Calls, ok \in BOOLEAN : WRename(c, ok)
  \/ \E c \in Calls, ok \in BOOLEAN : WUnlink(c, ok)

SpecPending == Init /\ [][NextPending]_vars

\* the first load has been called and has not settled
FirstLoadPending == ~initialized /\ \E c \in Calls : call[c].kind = "load"

\* the call of this step fails with NotInitialized and is not enqueued: the
\* queue and every call, the pending load among them, are as before
RejectedWhenCalled ==
  /\ thrown' = "NotInitialized"
  /\ UNCHANGED <<queue, resolved, ncalls, call, data, dirty, initialized, disk>>

\* C35: reload, save, updateAndSave and setPathAndSave called while the
\* store's first load() is still pending fail with NotInitialized without
\* being enqueued.
C35_RejectedWhileLoadPending ==
  [][FirstLoadPending
       => /\ reload => RejectedWhenCalled
          /\ save => RejectedWhenCalled
          /\ \A u \in Updaters : updateAndSave(u) => RejectedWhenCalled
          /\ \A keys \in SavePaths, v \in PathValues :
               setPathAndSave(keys, v) => RejectedWhenCalled]_vars

\* C35, as the code has it: a setPathAndSave whose keys are malformed or
\* empty fails in the validation of its keys, which comes first; every other
\* call of the four fails with NotInitialized; none is enqueued. No call
\* other than load is ever in the queue of a store that is not initialized.
C35_CheckedWhenCalled ==
  /\ [](~initialized => \A c \in Calls : call[c].kind \in {"none", "load"})
  /\ [][FirstLoadPending
          => /\ reload => RejectedWhenCalled
             /\ save => RejectedWhenCalled
             /\ \A u \in Updaters : updateAndSave(u) => RejectedWhenCalled
             /\ \A keys \in SavePaths, v \in PathValues :
                  setPathAndSave(keys, v)
                    => IF validateKeys(keys) /\ Len(keys) > 0
                       THEN RejectedWhenCalled
                       ELSE /\ thrown' \in {"ValidationFailure", "EmptyPath"}
                            /\ UNCHANGED <<queue, resolved, ncalls, call, data, dirty,
                                           initialized, disk>>]_vars

\* a call was rejected while the first load was reading the file it then
\* parses
C35_Witness ==
  /\ ~initialized
  /\ thrown = "NotInitialized"
  /\ \E c \in Calls : call[c].kind = "load" /\ call[c].pc = "load_read"
  /\ disk = Stringify(DocA1)


(***************************************************************************)
(* A unit of work that awaits an operation of its own store                *)
(***************************************************************************)
\* the operations a unit of work calls on its store, with their updaters
InnerCalls ==
  { <<"load", Partial(EmptyObj)>>, <<"reload", Partial(EmptyObj)>>,
    <<"save", Partial(EmptyObj)>>, <<"fn", Partial(EmptyObj)>>,
    <<"updateAndSave", Partial(DocA1)>>,
    <<"updateAndSave", Mutator(<<StrKey("a"), StrKey("b")>>, Num(2), FALSE)>> }

NextReentrant ==
  \/ load
  \/ reload /\ Returned
  \/ save /\ Returned
  \/ \E u \in Updaters : updateAndSave(u) /\ Returned
  \/ _runExclusive
  \/ \E c \in Calls, i \in InnerCalls : FnAwaits(c, i[1], i[2])
  \/ \E c \in Calls : BeginLoad(c)
  \/ \E c \in Calls : BeginReload(c)
  \/ \E c \in Calls : BeginSave(c)
  \/ \E c \in Calls : BeginUpdateAndSave(c)
  \/ \E c \in Calls : BeginFn(c)
  \/ \E c \in Calls, ok \in BOOLEAN : FnSettles(c, ok)
  \/ \E c \in Calls, ok \in BOOLEAN : LoadAccess(c, ok)
  \/ \E c \in Calls, ok \in BOOLEAN : LoadRead(c, ok)
  \/ \E c \in Calls, ok \in BOOLEAN : ReloadRead(c, ok)
  \/ \E c \in Calls, ok \in BOOLEAN : WOpen(c, ok)
  \/ \E c \in Calls, ok \in BOOLEAN : WWrite(c, ok)
  \/ \E c \in Calls, ok \in BOOLEAN : WSync(c, ok)
  \/ \E c \in Calls, ok \in BOOLEAN : WClose(c, ok)
  \/ \E c \in Calls, ok \in BOOLEAN : WRename(c, ok)
  \/ \E c \in Calls, ok \in BOOLEAN : WUnlink(c, ok)

SpecReentrant == Init /\ [][NextReentrant]_vars

\* unit c awaits an operation that it put in the queue of its own store
AwaitsOwnStore(c) == call[c].pc = "fn" /\ call[c].awaits # 0

\* C36: if a unit of work run through _runExclusive awaits another
\* queue-protected operation of the same store, neither of the two ever
\* completes (the unit stays where it awaits, the operation stays queued) and
\* every operation queued later stays queued.
C36_NotReentrant ==
  /\ [](\A c \in Calls :
          AwaitsOwnStore(c)
          => /\ call[call[c].awaits].pc = "queued"
             /\ \A e \in Calls : (e > c /\ call[e].pc # "idle") => call[e].pc = "queued")
  /\ [][\A c \in Calls : AwaitsOwnStore(c) => call'[c] = call[c]]_vars

\* a unit awaits an operation of its store and a third operation has been
\* queued after the two
C36_Witness ==
  \E c \in Calls, e \in Calls :
    /\ AwaitsOwnStore(c)
    /\ e > call[c].awaits
    /\ call[e].pc = "queued"


(***************************************************************************)
(* save and the updates made while it is pending                           *)
(***************************************************************************)
\* a save has been called and has not settled
PendingSave == \E c \in Calls : call[c].kind = "save"

TurnUpdaters == {Partial(DocAB2), Mutator(<<StrKey("c")>>, Num(1), FALSE)}

\* a loaded, clean store whose file holds DocA1
InitSaveTurn ==
  /\ data = DocA1
  /\ disk = Stringify(DocA1)
  /\ alias = NoAlias
  /\ dirty = FALSE
  /\ initialized = TRUE
  /\ queue = 1
  /\ resolved = {0, 1}
  /\ ncalls = 1
  /\ call = [c \in Calls |-> IF c = 1 THEN Settle(IdleCall, "done") ELSE IdleCall]
  /\ dirOk = TRUE
  /\ tmp = [c \in Calls |-> NoTmp]
  /\ started = <<1>>
  /\ thrown = "none"
  /\ prior = NoPrior
  /\ logger = NoLogger
  /\ logcalls = NoLogCalls
  /\ obj = EmptyObj

\* the caller calls save and, only while a save is pending, update
NextSaveTurn ==
  \/ save
  \/ \E u \in TurnUpdaters : PendingSave /\ update(u)
  \/ \E c \in Calls : BeginSave(c)
  \/ \E c \in Calls, ok \in BOOLEAN : WOpen(c, ok)
  \/ \E c \in Calls, ok \in BOOLEAN : WWrite(c, ok)
  \/ \E c \in Calls, ok \in BOOLEAN : WSync(c, ok)
  \/ \E c \in Calls, ok \in BOOLEAN : WClose(c, ok)
  \/ \E c \in Calls, ok \in BOOLEAN : WRename(c, ok)
  \/ \E c \in Calls, ok \in BOOLEAN : WUnlink(c, ok)

SpecSaveTurn == InitSaveTurn /\ [][NextSaveTurn]_vars

\* C37: save() writes the in-memory document as it is when save's body
\* starts running under the queue: a queued save holds no document; an
\* update() made while it is queued leaves it queued and its result is the
\* document the body takes; an update() made while the write is suspended
\* does not change the document being written; the file a completed save
\* leaves is that document.
C37_SaveWritesDocumentAtItsTurn ==
  /\ [](\A c \in Calls :
          (call[c].kind = "save" /\ call[c].pc = "queued") => call[c].wdata = Undef)
  /\ [][\A c \in Calls :
          /\ BeginSave(c) => call'[c].wdata = data
          /\ (call[c].kind = "save" /\ call[c].pc \in WritePcs /\ call'[c].pc \in WritePcs)
               => call'[c].wdata = call[c].wdata
          /\ (call[c].kind = "save" /\ Completes(c)) => disk' = Stringify(call[c].wdata)
          /\ \A u \in TurnUpdaters :
               (call[c].kind = "save" /\ update(u)) => call'[c] = call[c]]_vars

\* the first save of the store has written the file: it holds the update made
\* between the call and the start of the body, and not the one made during
\* the write
C37_Witness ==
  /\ ncalls = 2
  /\ call[2].pc = "done"
  /\ disk = Stringify(DocAB2)
  /\ data = Put(DocAB2, "c", Num(1))


\* a load called on a store that is already initialized completes in this step
LoadAgainCompletes(c) == initialized /\ call[c].kind = "load" /\ Completes(c)

\* C40: load() may be called again on an initialized store: it is enqueued
\* like the first one, and when it completes the in-memory document is the
\* content of the file, or, where the load found the file missing, a fresh
\* default document, which is then also what the file holds; isDirty is
\* false, whatever unsaved changes the store held.
C40_LoadAgainReplaces ==
  [][/\ (initialized /\ load) => (thrown' = "none" /\ ncalls' = ncalls + 1)
     /\ \A c \in Calls :
          LoadAgainCompletes(c)
          => /\ ~dirty'
             /\ initialized'
             /\ IF call[c].pc = "load_read"
                THEN data' = Parse(disk) /\ disk' = disk
                ELSE data' = defaultFactory /\ disk' = Stringify(defaultFactory)]_vars

\* a second load found the file gone and is about to put the default
\* document in its place while the store holds unsaved changes
C40_Witness ==
  /\ initialized
  /\ dirty
  /\ data # defaultFactory
  /\ \E c \in Calls :
       /\ call[c].kind = "load"
       /\ call[c].pc = "w_rename"
       /\ call[c].wdata = defaultFactory


(***************************************************************************)
(* Progress of the queue                                                   *)
(***************************************************************************)
\* the steps of call c that the runtime takes by itself: the continuation
\* after `await prev` once prev is resolved, a body up to its next await (a
\* mutator has returned or thrown by then), and the completion, with either
\* outcome, of the file-system step the call is suspended at
Step(c) ==
  \/ BeginLoad(c)
  \/ BeginReload(c)
  \/ BeginSave(c)
  \/ BeginUpdateAndSave(c)
  \/ \E ok \in BOOLEAN : LoadAccess(c, ok)
  \/ \E ok \in BOOLEAN : LoadRead(c, ok)
  \/ \E ok \in BOOLEAN : ReloadRead(c, ok)
  \/ \E ok \in BOOLEAN : WOpen(c, ok)
  \/ \E ok \in BOOLEAN : WWrite(c, ok)
  \/ \E ok \in BOOLEAN : WSync(c, ok)
  \/ \E ok \in BOOLEAN : WClose(c, ok)
  \/ \E ok \in BOOLEAN : WRename(c, ok)
  \/ \E ok \in BOOLEAN : WUnlink(c, ok)

\* the calls of SpecPending, where every continuation that can run and every
\* file-system step that is awaited eventually happens
SpecLive == Init /\ [][NextPending]_vars /\ \A c \in Calls : WF_vars(Step(c))

\* C38: if every file-system step eventually completes and every mutator
\* returns or throws, every call of load, reload, save, updateAndSave and
\* setPathAndSave that is in the queue eventually settles, whatever was
\* queued before it and however the earlier calls ended.
C38_EveryCallSettles ==
  \A c \in Calls : (call[c].pc \notin {"idle", "done", "failed"}) ~> Settled(c)

\* every call the bound allows has been made and has settled, one of them
\* after a failed one
C38_Witness ==
  /\ ncalls = MaxCalls
  /\ \A c \in Calls : Settled(c)
  /\ \E c \in Calls, d \in Calls : c < d /\ call[c].pc = "failed" /\ call[d].pc = "done"

====
